---- MODULE Spec2Model ----
(***************************************************************************)
(* Verification model of the comacode host-side connection runtime:        *)
(* rate limiter / ban list, token store, framing codec and the per-stream  *)
(* connection state machine with its session manager and output pumps.     *)
(***************************************************************************)
EXTENDS Integers, Sequences, FiniteSets, TLC

(***************************************************************************)
(* Universe and bounds                                                     *)
(***************************************************************************)
Ips == {"ip1", "ip2"}
Tokens == {"T1", "T2"}
NoToken == "NoToken"

\* bound on the per-ip failure counter explored by the rate-limiter model
MaxFailures == 4
\* bound on the number of clock advances explored by the token-store model
MaxTicks == 3

\* streams, session uuids and protocol versions of the connection model
Streams == {"s1", "s2"}
Uuids == {"A", "B"}
\* timestamps carried by Ping frames
Timestamps == {"41", "42"}
\* bounds on the frames a client sends on one stream
MaxFrames == 6
MaxAuthFrames == 4
MaxBanFrames == 3
MaxPingFrames == 4
\* bound on the ids handed out by next_id
MaxId == 2
\* bound on the ids handed out by next_id when the allocation is checked alone
MaxAlloc == 4
\* bound on the lines inserted into one session's history
MaxLines == 102
\* bound on the chunks waiting in a PTY output channel
MaxBuf == 1
PtyIds == 1..MaxId

\* program constants
PROTOCOL_VERSION == 1
RATE_LIMIT == 5
AUTH_FAIL_THRESHOLD == 3
DEFAULT_TOKEN_TTL == 604800

VARIABLES
    \* RateLimiterStore
    auth_failures,   \* ip -> failure count (0 = no entry in the map)
    banned_ips,      \* permanently banned ips
    bucket,          \* ip -> cells left in the governor bucket
    rl_result,       \* last rate-limiter call and its result
    fail_run,        \* ip -> record_auth_failure calls since the last reset
    check_run,       \* ip -> check calls on the fresh bucket, until its first refill
    \* TokenStore
    valid_tokens,    \* token -> creation time (a function on the stored set)
    now,             \* wall clock in seconds
    nticks,          \* number of clock advances so far
    tok_result,      \* last token-store call and its result
    \* MessageCodec / try_decode_message
    c_in,            \* the input buffer handed to the decoders
    c_src,           \* the messages the buffer was encoded from (<<>> if none)
    ds,              \* decode_stream: loop state and result
    td,              \* server receive loop: recv_buffer and decoded messages
    dec,             \* result of MessageCodec::decode on the buffer
    \* connection runtime
    streams,         \* stream -> locals of its handle_stream task, its send stream
    mgr,             \* SessionManager: maps, counter, pump registry
    pty,             \* id -> PTY session, its output channel and its pump
    \* components checked on their own
    chan,            \* one PTY byte channel: buffer, receiver, reader thread
    smart,           \* pump_pty_to_quic_smart: batch buffer and flush timer
    term,            \* a terminal (MockTerminal or PtySession) and its last call
    ids,             \* next_id and the create calls in progress
    ring,            \* SessionData.history and the lines inserted so far
    lk,              \* map locks of the session manager and the tasks that take them
    qp,              \* pump_quic_to_pty: the receive stream, the PTY writer and the loop
    acc,             \* handle_stream: the receive loop and its recv_buffer
    tag,             \* pump_pty_to_quic_tagged: line_accumulator and the lines pushed to history
    dl               \* session manager: the locks and the operations in progress

rateVars == <<auth_failures, banned_ips, bucket, rl_result, fail_run, check_run>>
tokVars == <<valid_tokens, now, nticks, tok_result>>
codecVars == <<c_in, c_src, ds, td, dec>>
srvVars == <<streams, mgr, pty>>
unitVars == <<chan, smart, term, ids, ring, lk, qp, acc, tag, dl>>

(***************************************************************************)
(* RateLimiterStore (hostagent/src/ratelimit.rs)                           *)
(***************************************************************************)
NoCall == [op |-> "none"]

is_banned(ip) == ip \in banned_ips

ban_ip(banned, ip) == banned \cup {ip}

\* a limiter that still admits a call on an empty bucket
check_on_empty(ip) ==
    IF is_banned(ip) THEN "Banned"
    ELSE IF bucket[ip] >= 0 THEN "Ok" ELSE "RateExceeded"

\* result of check(ip) in the current state
check(ip) ==
    IF is_banned(ip) THEN "Banned"
    ELSE IF bucket[ip] > 0 THEN "Ok" ELSE "RateExceeded"

auth_failure_count(ip) == auth_failures[ip]

\* threshold test of record_auth_failure on the incremented counter
BanThresholdOff(count) == count > AUTH_FAIL_THRESHOLD
BanThreshold(count) == count >= AUTH_FAIL_THRESHOLD

\* new failure map of reset_auth_failures
ResetKeepsCount(failures, ip) == failures
reset_failures(failures, ip) == [failures EXCEPT ![ip] = 0]

\* ban set after reset_auth_failures (the ban set is not touched)
ResetUnbans(banned, ip) == banned \ {ip}
reset_banned(banned, ip) == banned

\* record_auth_failure as a pure step on (failures, banned)
record_auth_failure(failures, banned, ip) ==
    LET count == failures[ip] + 1
        f2 == [failures EXCEPT ![ip] = count]
    IN  IF BanThreshold(count)
        THEN [failures |-> f2, banned |-> ban_ip(banned, ip), ret |-> "Banned"]
        ELSE [failures |-> f2, banned |-> banned, ret |-> "Ok"]

RateInit ==
    /\ auth_failures = [ip \in Ips |-> 0]
    /\ banned_ips = {}
    /\ bucket = [ip \in Ips |-> RATE_LIMIT]
    /\ rl_result = NoCall
    /\ fail_run = [ip \in Ips |-> 0]
    /\ check_run = [ip \in Ips |-> [n |-> 0, fresh |-> TRUE]]

Check(ip) ==
    /\ rl_result' = [op |-> "check", ip |-> ip, ret |-> check(ip), newly |-> FALSE]
    /\ bucket' = IF check(ip) = "Ok" THEN [bucket EXCEPT ![ip] = @ - 1] ELSE bucket
    /\ check_run' = IF check_run[ip].fresh /\ ~is_banned(ip) /\ check_run[ip].n <= RATE_LIMIT
                    THEN [check_run EXCEPT ![ip].n = @ + 1]
                    ELSE check_run
    /\ UNCHANGED <<auth_failures, banned_ips, fail_run>>

\* the governor clock replenishes one cell of an ip's bucket
Refill(ip) ==
    /\ bucket[ip] < RATE_LIMIT
    /\ bucket' = [bucket EXCEPT ![ip] = @ + 1]
    /\ rl_result' = NoCall
    /\ check_run' = [check_run EXCEPT ![ip].fresh = FALSE]
    /\ UNCHANGED <<auth_failures, banned_ips, fail_run>>

RecordAuthFailure(ip) ==
    /\ auth_failures[ip] < MaxFailures
    /\ LET r == record_auth_failure(auth_failures, banned_ips, ip)
       IN /\ auth_failures' = r.failures
          /\ banned_ips' = r.banned
          /\ rl_result' = [op |-> "record", ip |-> ip, ret |-> r.ret,
                           newly |-> (ip \notin banned_ips /\ ip \in r.banned)]
    /\ fail_run' = [fail_run EXCEPT ![ip] = @ + 1]
    /\ UNCHANGED <<bucket, check_run>>

ResetAuthFailures(ip) ==
    /\ auth_failures' = reset_failures(auth_failures, ip)
    /\ banned_ips' = reset_banned(banned_ips, ip)
    /\ rl_result' = [op |-> "reset", ip |-> ip, ret |-> "Ok", newly |-> FALSE]
    /\ fail_run' = [fail_run EXCEPT ![ip] = 0]
    /\ UNCHANGED <<bucket, check_run>>

(***************************************************************************)
(* TokenStore (hostagent/src/auth.rs)                                      *)
(***************************************************************************)
\* created_at.elapsed(): Ok(now - created), or Err when the clock is behind
elapsed(created) ==
    IF now >= created THEN [ok |-> TRUE, secs |-> now - created]
    ELSE [ok |-> FALSE, secs |-> 0]

ExpiryInclusive(secs) == secs <= DEFAULT_TOKEN_TTL
NotExpired(secs) == secs < DEFAULT_TOKEN_TTL

validate(token) ==
    IF token \in DOMAIN valid_tokens
    THEN LET e == elapsed(valid_tokens[token])
         IN IF e.ok THEN NotExpired(e.secs) ELSE FALSE
    ELSE FALSE

token_count == Cardinality(DOMAIN valid_tokens)

\* map insert: add or overwrite the creation time
add_token(tokens, token) ==
    [t \in (DOMAIN tokens) \cup {token} |->
        IF t = token THEN now ELSE tokens[t]]

RemoveKeeps(tokens, token) == tokens
remove_token(tokens, token) ==
    [t \in (DOMAIN tokens) \ {token} |-> tokens[t]]

\* a sweep that keeps an entry whose age is exactly the TTL
cleanup_expired_late(tokens) ==
    LET keep == {t \in DOMAIN tokens :
                    LET e == elapsed(tokens[t])
                    IN e.ok /\ e.secs <= DEFAULT_TOKEN_TTL}
    IN [t \in keep |-> tokens[t]]

\* retain(|_, created| created.elapsed().unwrap_or(MAX) < TTL)
cleanup_expired(tokens) ==
    LET keep == {t \in DOMAIN tokens :
                    LET e == elapsed(tokens[t])
                    IN e.ok /\ e.secs < DEFAULT_TOKEN_TTL}
    IN [t \in keep |-> tokens[t]]

EmptyStore == [t \in {} |-> 0]

TokInit ==
    /\ valid_tokens = EmptyStore
    /\ now = 0
    /\ nticks = 0
    /\ tok_result = NoCall

AddToken(t) ==
    /\ valid_tokens' = add_token(valid_tokens, t)
    /\ tok_result' = [op |-> "add", token |-> t, ret |-> TRUE]
    /\ UNCHANGED <<now, nticks>>

\* AuthToken::generate() draws 32 random bytes; add_token stores the result
GenerateToken ==
    \E t \in Tokens :
        /\ valid_tokens' = add_token(valid_tokens, t)
        /\ tok_result' = [op |-> "generate", token |-> t, ret |-> TRUE]
        /\ UNCHANGED <<now, nticks>>

RemoveToken(t) ==
    /\ valid_tokens' = remove_token(valid_tokens, t)
    /\ tok_result' = [op |-> "remove", token |-> t, ret |-> TRUE]
    /\ UNCHANGED <<now, nticks>>

ClearTokens ==
    /\ valid_tokens' = EmptyStore
    /\ tok_result' = [op |-> "clear", token |-> NoToken, ret |-> TRUE]
    /\ UNCHANGED <<now, nticks>>

Validate(t) ==
    /\ tok_result' = [op |-> "validate", token |-> t, ret |-> validate(t)]
    /\ UNCHANGED <<valid_tokens, now, nticks>>

CleanupExpired ==
    /\ valid_tokens' = cleanup_expired(valid_tokens)
    /\ tok_result' = [op |-> "cleanup", token |-> NoToken,
                      ret |-> token_count - Cardinality(DOMAIN cleanup_expired(valid_tokens))]
    /\ UNCHANGED <<now, nticks>>

\* the clock advances by one second or by just under the TTL
TickSteps == {1, DEFAULT_TOKEN_TTL - 1}

Tick(d) ==
    /\ nticks < MaxTicks
    /\ now' = now + d
    /\ nticks' = nticks + 1
    /\ tok_result' = NoCall
    /\ UNCHANGED valid_tokens


(***************************************************************************)
(* Framing codec (core/src/protocol/codec.rs) and the server's             *)
(* try_decode_message (hostagent/src/quic_server.rs)                       *)
(*                                                                         *)
(* A byte buffer is a record [data, fill]: the bytes of data followed by   *)
(* fill zero bytes, so that buffers longer than 16 MiB can be written.     *)
(***************************************************************************)
MAX_MESSAGE_SIZE == 16777216

Buf(bytes) == [data |-> bytes, fill |-> 0]
BLen(b) == Len(b.data) + b.fill
\* the byte at 0-based index i
Byte(b, i) == IF i < Len(b.data) THEN b.data[i + 1] ELSE 0
\* the first k bytes of a buffer without fill
Prefix(bytes, k) == Buf(SubSeq(bytes, 1, k))

\* u32::from_be_bytes of the four bytes at off
u32_be(b, off) ==
    Byte(b, off) * 16777216 + Byte(b, off + 1) * 65536 + Byte(b, off + 2) * 256
        + Byte(b, off + 3)

\* u32::to_be_bytes
to_be_bytes(n) ==
    <<(n \div 16777216) % 256, (n \div 65536) % 256, (n \div 256) % 256, n % 256>>

\* postcard varint (LEB128) of an unsigned integer
RECURSIVE varint(_)
varint(v) == IF v < 128 THEN <<v>> ELSE <<(v % 128) + 128>> \o varint(v \div 128)

RECURSIVE read_varint(_, _, _)
read_varint(b, pos, end) ==
    IF pos >= end THEN [ok |-> FALSE, val |-> 0, next |-> pos]
    ELSE LET x == Byte(b, pos)
         IN IF x < 128 THEN [ok |-> TRUE, val |-> x, next |-> pos + 1]
            ELSE LET r == read_varint(b, pos + 1, end)
                 IN [ok |-> r.ok, val |-> (x - 128) + 128 * r.val, next |-> r.next]

\* the messages of the model, by variant index of enum NetworkMessage
Msg(t) == [t |-> t, a |-> 0, b |-> 0, data |-> <<>>]
MsgClose == Msg("Close")
MsgPing(ts) == [Msg("Ping") EXCEPT !.a = ts]
MsgPong(ts) == [Msg("Pong") EXCEPT !.a = ts]
MsgResize(rows, cols) == [Msg("Resize") EXCEPT !.a = rows, !.b = cols]
MsgInput(bytes) == [Msg("Input") EXCEPT !.data = bytes]
\* Command(TerminalCommand {id, text, timestamp})
MsgCommand(id, text, ts) == [Msg("Command") EXCEPT !.a = id, !.data = text, !.b = ts]

\* postcard::to_allocvec: variant index, then the fields in order
to_allocvec(m) ==
    CASE m.t = "Command" ->
             <<1>> \o varint(m.a) \o varint(Len(m.data)) \o m.data \o varint(m.b)
      [] m.t = "Input" -> <<2>> \o varint(Len(m.data)) \o m.data
      [] m.t = "Ping" -> <<4>> \o varint(m.a)
      [] m.t = "Pong" -> <<5>> \o varint(m.a)
      [] m.t = "Resize" -> <<6>> \o varint(m.a) \o varint(m.b)
      [] m.t = "StartShell" -> <<8>>
      [] m.t = "Close" -> <<11>>

\* postcard::from_bytes on the bytes [start, end): trailing bytes are ignored
Failed == [ok |-> FALSE, msg |-> Msg("none")]
Parsed(m) == [ok |-> TRUE, msg |-> m]
from_bytes(b, start, end) ==
    LET d == read_varint(b, start, end)
    IN IF ~d.ok THEN Failed
       ELSE CASE d.val = 1 ->
                   LET id == read_varint(b, d.next, end)
                       n == read_varint(b, id.next, end)
                       ts == read_varint(b, n.next + n.val, end)
                   IN IF id.ok /\ n.ok /\ n.next + n.val <= end /\ ts.ok
                      THEN Parsed(MsgCommand(id.val,
                               [i \in 1..n.val |-> Byte(b, n.next + i - 1)], ts.val))
                      ELSE Failed
              [] d.val = 2 ->
                   LET n == read_varint(b, d.next, end)
                   IN IF n.ok /\ n.next + n.val <= end
                      THEN Parsed(MsgInput([i \in 1..n.val |-> Byte(b, n.next + i - 1)]))
                      ELSE Failed
              [] d.val \in {4, 5} ->
                   LET n == read_varint(b, d.next, end)
                   IN IF n.ok
                      THEN Parsed(IF d.val = 4 THEN MsgPing(n.val) ELSE MsgPong(n.val))
                      ELSE Failed
              [] d.val = 6 ->
                   LET r == read_varint(b, d.next, end)
                       c == read_varint(b, r.next, end)
                   IN IF r.ok /\ c.ok THEN Parsed(MsgResize(r.val, c.val)) ELSE Failed
              [] d.val = 8 -> Parsed(Msg("StartShell"))
              [] d.val = 11 -> Parsed(MsgClose)
              [] OTHER -> Failed

\* MessageCodec::encode: 4-byte big-endian length, then the payload
encode(m) == to_be_bytes(Len(to_allocvec(m))) \o to_allocvec(m)

\* the length test of decode
WithinCap(len) == len <= MAX_MESSAGE_SIZE

\* MessageCodec::decode
decode(b) ==
    IF BLen(b) < 4 THEN [op |-> "decode", err |-> "InvalidMessageFormat", msg |-> Msg("none")]
    ELSE LET len == u32_be(b, 0)
         IN IF ~WithinCap(len)
            THEN [op |-> "decode", err |-> "MessageTooLarge", msg |-> Msg("none")]
            ELSE IF BLen(b) < 4 + len
            THEN [op |-> "decode", err |-> "InvalidMessageFormat", msg |-> Msg("none")]
            ELSE LET r == from_bytes(b, 4, 4 + len)
                 IN IF r.ok THEN [op |-> "decode", err |-> "none", msg |-> r.msg]
                    ELSE [op |-> "decode", err |-> "Postcard", msg |-> Msg("none")]

\* cursor advance of decode_stream after one frame
AdvancePayloadOnly(offset, len) == offset + len
Advance(offset, len) == offset + 4 + len

\* one iteration of the while loop of MessageCodec::decode_stream
decode_stream_step(b, st) ==
    IF ~(st.offset < BLen(b)) THEN [st EXCEPT !.status = "done"]
    ELSE IF st.offset + 4 > BLen(b) THEN [st EXCEPT !.status = "done"]
    ELSE LET len == u32_be(b, st.offset)
         IN IF st.offset + 4 + len > BLen(b) THEN [st EXCEPT !.status = "done"]
            ELSE LET r == from_bytes(b, st.offset + 4, st.offset + 4 + len)
                 IN IF r.ok
                    THEN [st EXCEPT !.messages = Append(@, r.msg),
                                    !.offset = Advance(st.offset, len)]
                    ELSE [st EXCEPT !.status = "err", !.messages = <<>>]

\* QuicServer::try_decode_message on the buffer from offset off on:
\* none, or the message and the offset of the remaining bytes
try_decode_message(b, off) ==
    IF BLen(b) - off < 4 THEN [some |-> FALSE, msg |-> Msg("none"), rest |-> off]
    ELSE LET len == u32_be(b, off)
         IN IF len > MAX_MESSAGE_SIZE
            THEN [some |-> FALSE, msg |-> Msg("none"), rest |-> off]
            ELSE IF BLen(b) - off < 4 + len
            THEN [some |-> FALSE, msg |-> Msg("none"), rest |-> off]
            ELSE LET r == from_bytes(b, off + 4, off + 4 + len)
                 IN IF r.ok THEN [some |-> TRUE, msg |-> r.msg, rest |-> off + 4 + len]
                    ELSE [some |-> TRUE, msg |-> MsgClose, rest |-> off + 4 + len]

\* inputs of the codec model
CodecMsgs ==
    {MsgClose, Msg("StartShell"), MsgPing(0), MsgPing(200), MsgPong(42),
     MsgResize(24, 80), MsgResize(300, 120), MsgInput(<<>>), MsgInput(<<3>>),
     MsgInput(<<10, 200>>)}

\* headers declaring 16 MiB, 16 MiB + 1 and 32 MiB payload bytes, and a
\* one-byte frame holding an unknown variant index
RawBuffers ==
    {[data |-> h \o p, fill |-> f] :
        h \in {<<1, 0, 0, 0>>, <<1, 0, 0, 1>>, <<2, 0, 0, 0>>},
        p \in {<<>>, <<11>>, <<4, 42>>},
        f \in {0, MAX_MESSAGE_SIZE}}
    \cup {Buf(<<0, 0, 0, 1, 99>> \o encode(MsgClose))}

LoopStart == [offset |-> 0, messages |-> <<>>, status |-> "run"]

CodecInit ==
    /\ \/ \E m1 \in CodecMsgs, m2 \in CodecMsgs :
            /\ c_src = <<m1, m2>>
            /\ \E k \in 0..Len(encode(m1) \o encode(m2)) :
                  c_in = Prefix(encode(m1) \o encode(m2), k)
       \/ /\ c_src = <<>>
          /\ c_in \in RawBuffers
    /\ ds = LoopStart
    /\ td = LoopStart
    /\ dec = NoCall

Decode ==
    /\ dec = NoCall
    /\ dec' = decode(c_in)
    /\ UNCHANGED <<c_in, c_src, ds, td>>

DecodeStreamStep ==
    /\ ds.status = "run"
    /\ ds' = decode_stream_step(c_in, ds)
    /\ UNCHANGED <<c_in, c_src, td, dec>>

\* one iteration of `while let Some((msg, remaining)) = try_decode_message(..)`
TryDecodeStep ==
    /\ td.status = "run"
    /\ LET r == try_decode_message(c_in, td.offset)
       IN td' = IF r.some
                THEN [td EXCEPT !.messages = Append(@, r.msg), !.offset = r.rest]
                ELSE [td EXCEPT !.status = "done"]
    /\ UNCHANGED <<c_in, c_src, ds, dec>>

(***************************************************************************)
(* Connection runtime (hostagent/src/quic_server.rs), session manager      *)
(* (hostagent/src/session.rs) and output pumps (core/src/transport/        *)
(* stream.rs)                                                              *)
(***************************************************************************)
None == "none"

\* a PTY session and the output pump attached to its byte receiver
NoPty ==
    [key |-> None, alive |-> FALSE, buf |-> 0, pump |-> "none",
     pstream |-> None, htx |-> FALSE]

\* PtySession::spawn: a live child with an empty output channel
PtySpawn(key) == [NoPty EXCEPT !.key = key, !.alive = TRUE]

\* frames on the send stream; h notes on a SessionSwitched frame whether the
\* history snapshot of its switch was non-empty
F(t, id) == [t |-> t, id |-> id, h |-> FALSE]
NoFrame == F("none", "-")
Push(w, f) == <<w[2], f>>

\* a frame the handler is about to send under send_shared.lock(): the arm
\* continues at next; must marks a send whose error is propagated with `?`;
\* clear is the uuid the CloseSession arm compares active_session_id with
NoOut == [frame |-> NoFrame, next |-> "read", must |-> FALSE, clear |-> None]

\* locals of handle_stream and the state of its send stream
NewStream ==
    [pc |-> "closed", peer |-> "ip1", authenticated |-> FALSE, session_id |-> 0,
     active_session_id |-> None, pending_resize |-> FALSE, out |-> NoOut,
     sw |-> None, send_lock |-> 0, send_finished |-> FALSE, left |-> 0,
     effects |-> {}, refused |-> None, wire |-> <<NoFrame, NoFrame>>,
     announced |-> None, superseded |-> {}, snap |-> FALSE,
     banned_at_open |-> FALSE, close_seen |-> FALSE, explicit |-> None,
     fail_cause |-> None, fail_reply |-> NoFrame, peer_gone |-> FALSE,
     rcvd |-> 0, written |-> <<>>]

\* SessionManager::new
NewManager ==
    [next_id |-> 1, sessions_legacy |-> {}, outputs_legacy |-> {},
     sessions_uuid |-> [u \in Uuids |-> 0], history |-> [u \in Uuids |-> FALSE],
     history_senders |-> [u \in Uuids |-> 0], outputs_uuid |-> [u \in Uuids |-> 0],
     pump_handles |-> [u \in Uuids |-> 0]]

SrvInit ==
    /\ streams = [s \in Streams |-> NewStream]
    /\ mgr = NewManager
    /\ pty = [n \in PtyIds |-> NoPty]

\* the stream task is at recv.read and the client has a frame left to send
CanRead(s) == streams[s].pc = "read" /\ streams[s].left > 0

\* the stream's locals once the next frame has been decoded
Took(s) == [streams[s] EXCEPT !.left = @ - 1]

\* `if !authenticated { break; }`
RequireAuthOff(authenticated) == TRUE
RequireAuth(authenticated) == authenticated

Refuse(r, kind) == [r EXCEPT !.refused = kind]

\* effects records what was done to PTY sessions on behalf of the stream
\* while its authenticated flag was false
Effect(r, kind) ==
    IF r.authenticated THEN r ELSE [r EXCEPT !.effects = @ \cup {kind}]

\* send_shared.lock().await followed by send_message
Send(r, frame, next, must) ==
    [r EXCEPT !.pc = "send",
              !.out = [frame |-> frame, next |-> next, must |-> must, clear |-> None]]

\* NetworkMessage::validate_handshake
validate_handshake(version) == version = PROTOCOL_VERSION

\* the session entry still owns the PtySession (and its output_tx)
Held(m, n) == n \in m.sessions_legacy \/ \E u \in Uuids : m.sessions_uuid[u] = n

\* JoinHandle::abort on the pump of PTY n: the pump stops and drops its guard
AbortPump(p, n) ==
    IF n # 0 /\ p[n].pump \in {"spawned", "running"}
    THEN [p EXCEPT ![n].pump = "aborted", ![n].buf = 0]
    ELSE p

ReleaseLock(st, n) ==
    [x \in Streams |->
        IF n # 0 /\ st[x].send_lock = n THEN [st[x] EXCEPT !.send_lock = 0] ELSE st[x]]

\* SessionManager::stop_pump_for_session: cancel the registered pump, if any
stop_pump_for_session(m, u) == [m EXCEPT !.pump_handles[u] = 0]

\* SessionManager::set_pump_handle_for_session
set_pump_handle_for_session(m, u, n) == [m EXCEPT !.pump_handles[u] = n]

\* SessionManager::take_output_rx_for_session: the receiver moves out
take_output_rx_for_session(m, u) == [m EXCEPT !.outputs_uuid[u] = 0]

\* the byte receiver of a UUID session kept by the manager until it is taken
store_output_rx(m, u, n) == [m EXCEPT !.outputs_uuid[u] = n]

\* SessionManager::create_session
create_session(m) ==
    [m EXCEPT !.next_id = @ + 1,
              !.sessions_legacy = @ \cup {m.next_id},
              !.outputs_legacy = @ \cup {m.next_id}]

\* SessionManager::get_pty_reader
get_pty_reader(m, id) == [m EXCEPT !.outputs_legacy = @ \ {id}]

\* SessionManager::cleanup_session
cleanup_session(m, id) ==
    [m EXCEPT !.sessions_legacy = @ \ {id}, !.outputs_legacy = @ \ {id}]

\* SessionManager::create_session_with_uuid
create_session_with_uuid(m, u) ==
    store_output_rx(
        [m EXCEPT !.next_id = @ + 1,
                  !.sessions_uuid[u] = m.next_id,
                  !.history[u] = FALSE,
                  !.history_senders[u] = m.next_id],
        u, m.next_id)

session_exists(m, u) == m.sessions_uuid[u] # 0

\* SessionManager::get_history: is the snapshot non-empty
get_history(m, u) == m.sessions_uuid[u] # 0 /\ m.history[u]

get_history_sender(m, u) == m.history_senders[u] # 0

\* SessionManager::close_session (on an existing session)
close_session(m, u) ==
    [m EXCEPT !.sessions_uuid[u] = 0, !.history[u] = FALSE, !.history_senders[u] = 0]

\* PtySession::kill
Kill(p, n) == [p EXCEPT ![n].alive = FALSE]

\* `if !history.is_empty()` of the SwitchSession arm
SendHistoryAlways(nonempty) == TRUE
SendHistoryIf(nonempty) == nonempty

\* connection.accept_bi() in handle_connection: a stream task starts; the
\* client is going to send k frames on the stream
OpenStream(s, ip, k) ==
    /\ streams[s].pc = "closed"
    /\ streams' = [streams EXCEPT ![s] =
            [@ EXCEPT !.pc = "read", !.peer = ip, !.left = k,
                      !.banned_at_open = is_banned(ip)]]
    /\ UNCHANGED <<rateVars, mgr, pty>>

\* NetworkMessage::hello(token): the Hello frame the server builds
hello(token) == F("Hello", IF token = NoToken THEN "-" ELSE token)

\* why a Hello failed authentication, as the server could tell it
FailureCause(token, banned) ==
    IF banned THEN "banned" ELSE IF token = NoToken THEN "missing" ELSE "wrong"

\* the frame sent on the failure path of the Hello arm
ReplyNamesCause(cause) == F("Hello", cause)
auth_failure_reply(cause) == hello(NoToken)

\* Hello arm
DoHello(s, token, version) ==
    /\ CanRead(s)
    /\ LET r == Took(s)
           ip == r.peer
           token_valid == IF token # NoToken THEN validate(token) ELSE FALSE
       IN IF ~token_valid
          THEN LET f == record_auth_failure(auth_failures, banned_ips, ip)
               IN /\ auth_failures' = f.failures
                  /\ banned_ips' = f.banned
                  /\ rl_result' = [op |-> "record", ip |-> ip, ret |-> f.ret,
                                   newly |-> (ip \notin banned_ips /\ ip \in f.banned)]
                  /\ fail_run' = [fail_run EXCEPT ![ip] = @ + 1]
                  /\ LET cause == FailureCause(token, ip \in f.banned)
                     IN streams' = [streams EXCEPT ![s] =
                            Send([r EXCEPT !.fail_cause = cause,
                                           !.fail_reply = auth_failure_reply(cause)],
                                 auth_failure_reply(cause), "read", FALSE)]
          ELSE /\ auth_failures' = reset_failures(auth_failures, ip)
               /\ banned_ips' = reset_banned(banned_ips, ip)
               /\ rl_result' = [op |-> "reset", ip |-> ip, ret |-> "Ok", newly |-> FALSE]
               /\ fail_run' = [fail_run EXCEPT ![ip] = 0]
               /\ streams' = [streams EXCEPT ![s] =
                     Send([r EXCEPT !.authenticated = TRUE], hello(NoToken), "read",
                          validate_handshake(version))]
    /\ UNCHANGED <<bucket, check_run, mgr, pty>>

\* an Input or Command payload has arrived on an authenticated stream; the
\* payloads of a stream are numbered in the order of arrival
Received(r) == [r EXCEPT !.rcvd = @ + 1]

\* write_to_session / write_to_uuid_session returned Ok for the payload
Wrote(r) == [Effect(r, "written") EXCEPT !.written = Append(@, r.rcvd)]

\* spawn_session_with_config: create the legacy session, apply the pending
\* resize, take the reader and spawn the pump, write the initial data; when
\* create_session fails (PtySession::spawn) the id is spent, the error goes
\* back to the arm, which ignores it (`let _ =`)
spawn_session_with_config(s, r) ==
    /\ mgr.next_id <= MaxId
    /\ \E spawned \in BOOLEAN :
        LET id == mgr.next_id
            r1 == IF r.pending_resize THEN Effect(r, "resized") ELSE r
        IN IF spawned
           THEN /\ mgr' = get_pty_reader(create_session(mgr), id)
                /\ pty' = [pty EXCEPT ![id] =
                      [PtySpawn("legacy") EXCEPT !.pump = "spawned", !.pstream = s]]
                /\ streams' = [streams EXCEPT ![s] =
                      Wrote(Effect([r1 EXCEPT !.session_id = id], "created"))]
           ELSE /\ mgr' = [mgr EXCEPT !.next_id = @ + 1]
                /\ pty' = pty
                /\ streams' = [streams EXCEPT ![s] = r]

\* the body shared by the Input and Command arms
WriteArm(s, kind) ==
    /\ CanRead(s)
    /\ LET r0 == Took(s)
           r == Received(r0)
       IN IF ~RequireAuth(r0.authenticated)
          THEN /\ streams' = [streams EXCEPT ![s] = Refuse(r0, kind)]
               /\ UNCHANGED <<mgr, pty>>
          ELSE IF r.active_session_id # None
          THEN /\ streams' = [streams EXCEPT ![s] =
                    IF session_exists(mgr, r.active_session_id)
                    THEN Wrote(r) ELSE r]
               /\ UNCHANGED <<mgr, pty>>
          ELSE IF r.session_id # 0
          THEN /\ streams' = [streams EXCEPT ![s] =
                    IF r.session_id \in mgr.sessions_legacy
                    THEN Wrote(r) ELSE r]
               /\ UNCHANGED <<mgr, pty>>
          ELSE spawn_session_with_config(s, r)
    /\ UNCHANGED rateVars

DoInput(s) == WriteArm(s, "Input")

DoCommand(s) == WriteArm(s, "Command")

\* Ping arm: Pong carries the timestamp of the Ping and is sent with `?`
DoPing(s, ts) ==
    /\ CanRead(s)
    /\ streams' = [streams EXCEPT ![s] = Send(Took(s), F("Pong", ts), "read", TRUE)]
    /\ UNCHANGED <<rateVars, mgr, pty>>

\* Resize arm (no authentication test)
DoResize(s) ==
    /\ CanRead(s)
    /\ LET r == Took(s)
       IN streams' = [streams EXCEPT ![s] =
            IF r.active_session_id # None
            THEN IF session_exists(mgr, r.active_session_id)
                 THEN Effect(r, "resized") ELSE r
            ELSE IF r.session_id # 0
            THEN IF r.session_id \in mgr.sessions_legacy
                 THEN Effect(r, "resized") ELSE r
            ELSE [r EXCEPT !.pending_resize = TRUE]]
    /\ UNCHANGED <<rateVars, mgr, pty>>

\* Close arm: `break` leaves the decode loop only; close_seen notes that the
\* client asked to end the stream
DoClose(s) ==
    /\ CanRead(s)
    /\ streams' = [streams EXCEPT ![s] = [Took(s) EXCEPT !.close_seen = TRUE]]
    /\ UNCHANGED <<rateVars, mgr, pty>>

\* ListDir arm (WatchDir, UnwatchDir and ReadFile test authenticated alike)
DoListDir(s, found) ==
    /\ CanRead(s)
    /\ LET r == Took(s)
       IN streams' = [streams EXCEPT ![s] =
            IF ~RequireAuth(r.authenticated) THEN Refuse(r, "Vfs")
            ELSE IF found THEN Send(r, F("DirChunk", "-"), "read", FALSE)
            ELSE Send(r, F("Error", "-"), "read", FALSE)]
    /\ UNCHANGED <<rateVars, mgr, pty>>

\* the variants of NetworkMessage that have no arm of their own
UnhandledKinds == {"RequestPty", "StartShell", "RequestSnapshot"}

\* `_ =>` arm: the frame is only logged; explicit notes the last frame of the
\* explicit protocol an authenticated stream received
DoUnhandled(s, kind) ==
    /\ CanRead(s)
    /\ streams' = [streams EXCEPT ![s] =
            IF streams[s].authenticated /\ kind \in {"RequestPty", "StartShell"}
            THEN [Took(s) EXCEPT !.explicit = kind]
            ELSE Took(s)]
    /\ UNCHANGED <<rateVars, mgr, pty>>

\* Session(CreateSession) arm
DoCreateSession(s, u, path_exists) ==
    /\ CanRead(s)
    /\ LET r == Took(s)
       IN IF ~RequireAuth(r.authenticated)
          THEN /\ streams' = [streams EXCEPT ![s] = Refuse(r, "Session")]
               /\ UNCHANGED <<mgr, pty>>
          ELSE IF ~path_exists
          THEN /\ streams' = [streams EXCEPT ![s] =
                    Send(r, F("Error", "-"), "read", FALSE)]
               /\ UNCHANGED <<mgr, pty>>
          ELSE /\ mgr.next_id <= MaxId
               /\ mgr' = create_session_with_uuid(mgr, u)
               /\ pty' = [pty EXCEPT ![mgr.next_id] = PtySpawn(u)]
               /\ streams' = [streams EXCEPT ![s] =
                    Send(Effect(r, "created"), F("Created", u), "read", FALSE)]
    /\ UNCHANGED rateVars

\* Session(CheckSession) arm
DoCheckSession(s, u) ==
    /\ CanRead(s)
    /\ LET r == Took(s)
       IN streams' = [streams EXCEPT ![s] =
            IF ~RequireAuth(r.authenticated) THEN Refuse(r, "Session")
            ELSE IF session_exists(mgr, u)
            THEN Send(r, F("Reattach", u), "read", FALSE)
            ELSE Send(r, F("NotFound", u), "read", FALSE)]
    /\ UNCHANGED <<rateVars, mgr, pty>>

\* Session(SwitchSession) arm up to the history frame: existence test,
\* stop_pump_for_session(old), get_history, `if !history.is_empty()`
DoSwitchSession(s, u) ==
    /\ CanRead(s)
    /\ LET r == Took(s)
       IN IF ~RequireAuth(r.authenticated)
          THEN /\ streams' = [streams EXCEPT ![s] = Refuse(r, "Session")]
               /\ UNCHANGED <<mgr, pty>>
          ELSE IF ~session_exists(mgr, u)
          THEN /\ streams' = [streams EXCEPT ![s] =
                    Send(r, F("NotFound", u), "read", FALSE)]
               /\ UNCHANGED <<mgr, pty>>
          ELSE LET old == r.active_session_id
                   h == IF old # None THEN mgr.pump_handles[old] ELSE 0
                   m1 == IF old # None THEN stop_pump_for_session(mgr, old) ELSE mgr
                   st1 == ReleaseLock(streams, h)
                   r1 == [st1[s] EXCEPT !.left = @ - 1, !.sw = u,
                                        !.snap = get_history(m1, u)]
               IN /\ mgr' = m1
                  /\ pty' = AbortPump(pty, h)
                  /\ streams' = [st1 EXCEPT ![s] =
                        IF SendHistoryIf(get_history(m1, u))
                        THEN Send(r1, F("History", u), "take", FALSE)
                        ELSE [r1 EXCEPT !.pc = "take"]]
    /\ UNCHANGED rateVars

\* SwitchSession arm from `active_session_id = Some(..)` on: take the
\* receiver, spawn the tagged pump, register its handle, send SessionSwitched
SwTake(s) ==
    /\ streams[s].pc = "take"
    /\ LET r == streams[s]
           u == r.sw
           rx == mgr.outputs_uuid[u]
           r1 == Effect([r EXCEPT !.active_session_id = u, !.sw = None,
                                  !.snap = FALSE], "switched")
       IN /\ mgr' = IF rx # 0
                    THEN set_pump_handle_for_session(
                            take_output_rx_for_session(mgr, u), u, rx)
                    ELSE mgr
          /\ pty' = IF rx # 0
                    THEN [pty EXCEPT ![rx].pump = "spawned", ![rx].pstream = s,
                                     ![rx].htx = get_history_sender(mgr, u)]
                    ELSE pty
          /\ streams' = [streams EXCEPT ![s] =
                Send(r1, [F("Switched", u) EXCEPT !.h = r.snap], "read", FALSE)]
    /\ UNCHANGED rateVars

\* Session(CloseSession) arm
DoCloseSession(s, u) ==
    /\ CanRead(s)
    /\ LET r == Took(s)
       IN IF ~RequireAuth(r.authenticated)
          THEN /\ streams' = [streams EXCEPT ![s] = Refuse(r, "Session")]
               /\ UNCHANGED <<mgr, pty>>
          ELSE IF session_exists(mgr, u)
          THEN /\ mgr' = close_session(mgr, u)
               /\ pty' = Kill(pty, mgr.sessions_uuid[u])
               /\ streams' = [streams EXCEPT ![s] =
                    [Send(Effect(r, "closed"), F("Closed", u), "read", FALSE)
                        EXCEPT !.out.clear = u]]
          ELSE /\ streams' = [streams EXCEPT ![s] =
                    Send(r, F("Error", "-"), "read", FALSE)]
               /\ UNCHANGED <<mgr, pty>>
    /\ UNCHANGED rateVars

\* Session(ListSessions) arm: the list goes out as Event(Output)
DoListSessions(s) ==
    /\ CanRead(s)
    /\ LET r == Took(s)
       IN streams' = [streams EXCEPT ![s] =
            IF ~RequireAuth(r.authenticated) THEN Refuse(r, "Session")
            ELSE Send(r, F("Output", "-"), "read", FALSE)]
    /\ UNCHANGED <<rateVars, mgr, pty>>

\* the handler obtains send_shared and writes its frame; a write on a
\* finished send stream fails, which ends the task when the send used `?`
HandlerSend(s) ==
    /\ streams[s].pc = "send"
    /\ streams[s].send_lock = 0
    /\ LET r == streams[s]
           o == r.out
           ok == ~r.send_finished /\ ~r.peer_gone
           r1 == IF ok
                 THEN [r EXCEPT !.wire = Push(@, o.frame)]
                 ELSE r
           r2 == IF ok /\ o.frame.t = "Switched"
                 THEN [r1 EXCEPT
                        !.superseded =
                            (IF r.announced = None THEN @ ELSE @ \cup {r.announced})
                                \ {o.frame.id},
                        !.announced = o.frame.id]
                 ELSE r1
           r3 == IF o.clear # None /\ r2.active_session_id = o.clear
                 THEN [r2 EXCEPT !.active_session_id = None]
                 ELSE r2
       IN streams' = [streams EXCEPT ![s] =
            [r3 EXCEPT !.out = NoOut,
                       !.pc = IF ~ok /\ o.must THEN "failed" ELSE o.next]]
    /\ UNCHANGED <<rateVars, mgr, pty>>

\* the peer stops reading the stream or the connection is lost: from now on
\* send.write_all fails
PeerStop(s) ==
    /\ streams[s].pc \in {"read", "send"}
    /\ ~streams[s].peer_gone
    /\ streams' = [streams EXCEPT ![s].peer_gone = TRUE]
    /\ UNCHANGED <<rateVars, mgr, pty>>

\* recv.read returns EOF, None or an error: the cleanup after the loop runs
StreamEof(s) ==
    /\ streams[s].pc = "read"
    /\ LET r == streams[s]
           id == r.session_id
           had == id # 0 /\ id \in mgr.sessions_legacy
       IN /\ mgr' = IF id # 0 THEN cleanup_session(mgr, id) ELSE mgr
          /\ pty' = IF had THEN Kill(pty, id) ELSE pty
          /\ streams' = [streams EXCEPT ![s] =
                [(IF had THEN Effect(r, "closed") ELSE r) EXCEPT !.pc = "done"]]
    /\ UNCHANGED rateVars

\* the spawned pump task obtains send_shared; it keeps the guard until it ends
PumpAcquire(n) ==
    /\ pty[n].pump = "spawned"
    /\ streams[pty[n].pstream].send_lock = 0
    /\ pty' = [pty EXCEPT ![n].pump = "running"]
    /\ streams' = [streams EXCEPT ![pty[n].pstream].send_lock = n]
    /\ UNCHANGED <<rateVars, mgr>>

\* one loop iteration of pump_pty_to_quic / pump_pty_to_quic_tagged on a chunk
PumpEmit(n, newline) ==
    /\ pty[n].pump = "running"
    /\ pty[n].buf > 0
    /\ LET s == pty[n].pstream
           key == pty[n].key
           tagged == key # "legacy"
           f == IF tagged THEN F("TaggedOutput", key) ELSE F("Output", "-")
       IN IF streams[s].send_finished \/ streams[s].peer_gone
          THEN /\ pty' = [pty EXCEPT ![n].pump = "ended", ![n].buf = 0]
               /\ streams' = [streams EXCEPT ![s].send_lock = 0]
               /\ UNCHANGED mgr
          ELSE /\ pty' = [pty EXCEPT ![n].buf = @ - 1]
               /\ streams' = [streams EXCEPT ![s].wire = Push(@, f)]
               /\ mgr' = IF tagged /\ pty[n].htx /\ newline /\ session_exists(mgr, key)
                         THEN [mgr EXCEPT !.history[key] = TRUE]
                         ELSE mgr
    /\ UNCHANGED rateVars

\* the pump reads EOF (every sender of the channel is gone): send.finish()
PumpEof(n) ==
    /\ pty[n].pump = "running"
    /\ pty[n].buf = 0
    /\ ~pty[n].alive
    /\ ~Held(mgr, n)
    /\ pty' = [pty EXCEPT ![n].pump = "ended"]
    /\ streams' = [streams EXCEPT ![pty[n].pstream] =
            [@ EXCEPT !.send_lock = 0, !.send_finished = TRUE]]
    /\ UNCHANGED <<rateVars, mgr>>

\* the PTY reader thread pushes a chunk into the output channel
PtyOutput(n) ==
    /\ pty[n].key # None
    /\ pty[n].alive
    /\ pty[n].pump \notin {"aborted", "ended"}
    /\ pty[n].buf < MaxBuf
    /\ pty' = [pty EXCEPT ![n].buf = @ + 1]
    /\ UNCHANGED <<rateVars, mgr, streams>>

\* the child shell exits on its own
ChildExit(n) ==
    /\ pty[n].key # None
    /\ pty[n].alive
    /\ pty' = Kill(pty, n)
    /\ UNCHANGED <<rateVars, mgr, streams>>

\* cleanup_dead_sessions without its legacy part
cleanup_dead_uuid_only(m) ==
    [m EXCEPT !.sessions_uuid = [u \in Uuids |->
                    IF m.sessions_uuid[u] # 0 /\ ~pty[m.sessions_uuid[u]].alive
                    THEN 0 ELSE m.sessions_uuid[u]],
              !.history = [u \in Uuids |->
                    IF m.sessions_uuid[u] # 0 /\ ~pty[m.sessions_uuid[u]].alive
                    THEN FALSE ELSE m.history[u]]]

\* SessionManager::cleanup_dead_sessions
cleanup_dead_sessions(m) ==
    [m EXCEPT !.sessions_legacy = {id \in @ : pty[id].alive},
              !.outputs_legacy = @ \ {id \in m.sessions_legacy : ~pty[id].alive},
              !.sessions_uuid = [u \in Uuids |->
                    IF m.sessions_uuid[u] # 0 /\ ~pty[m.sessions_uuid[u]].alive
                    THEN 0 ELSE m.sessions_uuid[u]],
              !.history = [u \in Uuids |->
                    IF m.sessions_uuid[u] # 0 /\ ~pty[m.sessions_uuid[u]].alive
                    THEN FALSE ELSE m.history[u]]]

Reaper ==
    /\ cleanup_dead_sessions(mgr) # mgr
    /\ mgr' = cleanup_dead_sessions(mgr)
    /\ UNCHANGED <<rateVars, streams, pty>>

(***************************************************************************)
(* The PTY byte channel (hostagent/src/pty.rs, core/src/streaming.rs) and  *)
(* what the two create functions of the session manager do with its        *)
(* receiver.  Chunks are numbered in the order the reader thread reads     *)
(* them from the PTY master.                                               *)
(***************************************************************************)
\* bound standing for the channel capacity (1024 messages in pty.rs)
ChanCap == 2
\* bound on the chunks the child writes
MaxChunks == 3
SessionKinds == {"legacy", "uuid"}

\* phase: "none", "spawned" (PtySession::spawn has returned inside the create
\* function), "live" (entry inserted, create returned), "closed" (torn down)
\* rx: "local" (held by the create function), "stored" (outputs_legacy),
\* "reader" (moved into the pump's reader), "dropped"
NoChan ==
    [phase |-> "none", rx |-> "none", buf |-> <<>>, next |-> 1,
     sent |-> <<>>, delivered |-> <<>>, reader |-> "none"]

\* one session of each kind
ChanInit == chan = [k \in SessionKinds |-> NoChan]

\* dropping the receiver closes the channel and discards what is buffered
drop_rx(c) == [c EXCEPT !.rx = "dropped", !.buf = <<>>]

\* PtySession::spawn called by create_session / create_session_with_uuid
ChSpawn(k) ==
    /\ chan[k].phase = "none"
    /\ chan' = [chan EXCEPT ![k] =
            [@ EXCEPT !.phase = "spawned", !.rx = "local", !.reader = "run"]]

\* create_session: the receiver goes into outputs_legacy
ChInsertLegacy ==
    /\ chan["legacy"].phase = "spawned"
    /\ chan' = [chan EXCEPT !["legacy"] = [@ EXCEPT !.phase = "live", !.rx = "stored"]]

\* create_session_with_uuid: the entry is inserted and the function returns;
\* its local `_output_rx` goes out of scope
ChReturnUuid ==
    /\ chan["uuid"].phase = "spawned"
    /\ chan' = [chan EXCEPT !["uuid"] = [drop_rx(@) EXCEPT !.phase = "live"]]

\* reader thread: read a chunk from the master, tx_clone.blocking_send(data)
ChReaderSend(k) ==
    /\ chan[k].reader = "run"
    /\ chan[k].phase \in {"spawned", "live"}
    /\ chan[k].next <= MaxChunks
    /\ IF chan[k].rx = "dropped"
       THEN chan' = [chan EXCEPT ![k] = [@ EXCEPT !.reader = "stopped", !.next = @ + 1]]
       ELSE /\ Len(chan[k].buf) < ChanCap
            /\ chan' = [chan EXCEPT ![k] =
                    [@ EXCEPT !.buf = Append(@, chan[k].next),
                              !.sent = Append(@, chan[k].next),
                              !.next = @ + 1]]

\* get_pty_reader: the receiver moves out of outputs_legacy
ChGetReader ==
    /\ chan["legacy"].rx = "stored"
    /\ chan' = [chan EXCEPT !["legacy"].rx = "reader"]

\* the pump reads the next chunk from its reader
ChRecv(k) ==
    /\ chan[k].rx = "reader"
    /\ chan[k].buf # <<>>
    /\ chan' = [chan EXCEPT ![k] =
            [@ EXCEPT !.delivered = Append(@, Head(chan[k].buf)), !.buf = Tail(@)]]

\* cleanup_session / close_session: kill the child, remove the entry and a
\* receiver still stored; the reader thread sees the end of the PTY
ChTeardown(k) ==
    /\ chan[k].phase = "live"
    /\ chan' = [chan EXCEPT ![k] =
            [(IF chan[k].rx = "stored" THEN drop_rx(@) ELSE @)
                EXCEPT !.phase = "closed", !.reader = "stopped"]]

(***************************************************************************)
(* pump_pty_to_quic_smart (core/src/transport/stream.rs).  Time advances   *)
(* in ticks; sizes are counted in units of one small chunk.                *)
(***************************************************************************)
\* bounds standing for max_flush_delay_ms (ticks) and max_batch_size (units)
FlushDelay == 2
BatchSize == 4
\* bound on the age of a batch that the clock is followed to
MaxAge == 5
\* bound on the number of batches sent
MaxSends == 3
ChunkSizes == {1, 2}

\* BufferConfig with flush_on_newline set or not
BufferConfig(nl) ==
    [max_batch_size |-> BatchSize, max_flush_delay_ms |-> FlushDelay,
     flush_on_newline |-> nl]

\* batch_buf is empty; age is the time since the first byte of the batch
\* entered it, timer the time since the sleep of this iteration was created
\* buf is the content of batch_buf, batch its length; the bytes read from the
\* PTY are numbered 1, 2, ... and written as ranges <<first, last>>; frames
\* are the payloads of the Output frames written so far
SmartStart(cfg) ==
    [config |-> cfg, batch |-> 0, age |-> 0, timer |-> 0, sends |-> 0,
     last |-> "none", running |-> TRUE, buf |-> <<>>, nread |-> 0, reads |-> 0,
     frames |-> <<>>]

\* concatenation of byte sequences, adjoining ranges written as one
Concat(s, t) ==
    IF s # <<>> /\ t # <<>> /\ s[Len(s)][2] + 1 = Head(t)[1]
    THEN SubSeq(s, 1, Len(s) - 1) \o <<<<s[Len(s)][1], Head(t)[2]>>>> \o Tail(t)
    ELSE s \o t

RECURSIVE Size(_)
Size(s) == IF s = <<>> THEN 0 ELSE (Head(s)[2] - Head(s)[1] + 1) + Size(Tail(s))

SmartInit == \E nl \in BOOLEAN : smart = SmartStart(BufferConfig(nl))

\* send_batch without the write, followed by batch_buf.clear()
send_batch_lost(p, why) ==
    [p EXCEPT !.batch = 0, !.age = 0, !.sends = @ + 1, !.last = why, !.buf = <<>>]

\* send_batch followed by batch_buf.clear(); empty data is not written
send_batch(p, why) ==
    IF p.batch = 0 THEN p
    ELSE [p EXCEPT !.batch = 0, !.age = 0, !.sends = @ + 1, !.last = why,
                   !.frames = Append(@, p.buf), !.buf = <<>>]

\* a new select!: tokio::time::sleep(flush_timeout) is created afresh
Rearm(p) == [p EXCEPT !.timer = 0]

\* select! branch 1: pty.read returned n > 0 bytes
SmChunk(n, has_newline) ==
    /\ smart.running
    /\ smart.sends < MaxSends
    /\ LET cfg == smart.config
           chunk == <<<<smart.nread + 1, smart.nread + n>>>>
           fits == smart.batch + n <= cfg.max_batch_size
           \* accumulate, or send the current batch and start a new one
           p1 == IF fits
                 THEN [smart EXCEPT !.batch = @ + n, !.buf = Concat(@, chunk),
                                    !.nread = @ + n, !.reads = @ + 1]
                 ELSE [(IF smart.batch > 0 THEN send_batch(smart, "full") ELSE smart)
                            EXCEPT !.batch = n, !.age = 0, !.buf = chunk,
                                   !.nread = @ + n, !.reads = @ + 1]
           should_flush == \/ cfg.flush_on_newline /\ has_newline
                           \/ p1.batch >= cfg.max_batch_size
           p2 == IF should_flush
                 THEN send_batch(p1, IF cfg.flush_on_newline /\ has_newline
                                     THEN "newline" ELSE "size")
                 ELSE [p1 EXCEPT !.last = "none"]
       IN smart' = Rearm(p2)

\* select! branch 2: the sleep expired with a non-empty batch
SmTimeout ==
    /\ smart.running
    /\ smart.batch > 0
    /\ smart.timer >= smart.config.max_flush_delay_ms
    /\ smart' = Rearm(send_batch(smart, "timer"))

\* one tick of time passes; an expired sleep is served before the next tick
SmTick ==
    /\ smart.running
    /\ smart.batch > 0
    /\ smart.timer < smart.config.max_flush_delay_ms
    /\ smart.age < MaxAge
    /\ smart' = [smart EXCEPT !.age = @ + 1, !.timer = @ + 1]

\* the concatenation of a sequence of payloads
RECURSIVE FlattenFrames(_)
FlattenFrames(fs) == IF fs = <<>> THEN <<>> ELSE Concat(Head(fs), FlattenFrames(Tail(fs)))

\* the bytes 1..n in order
AllRead(n) == IF n = 0 THEN <<>> ELSE <<<<1, n>>>>

\* BufferConfig::default(), interactive() and bulk()
Presets ==
    {[max_batch_size |-> 16384, max_flush_delay_ms |-> 10, flush_on_newline |-> TRUE],
     [max_batch_size |-> 4096, max_flush_delay_ms |-> 5, flush_on_newline |-> TRUE],
     [max_batch_size |-> 65536, max_flush_delay_ms |-> 50, flush_on_newline |-> FALSE]}

\* read_buf holds 8192 bytes: the sizes of the reads followed with the presets
SMART_READ_SIZE == 8192
PresetReads == {1, 4095, 4096, SMART_READ_SIZE}
MaxPresetReads == 5

PresetInit == \E cfg \in Presets : smart = SmartStart(cfg)

\* time passes until the sleep of this iteration is due
SmSleep ==
    /\ smart.running
    /\ smart.batch > 0
    /\ smart.timer < smart.config.max_flush_delay_ms
    /\ smart' = [smart EXCEPT !.age = @ + (smart.config.max_flush_delay_ms - smart.timer),
                              !.timer = smart.config.max_flush_delay_ms]

\* select! branch 1 with n = 0: flush what remains and leave the loop
SmEof ==
    /\ smart.running
    /\ smart' = [(IF smart.batch > 0 THEN send_batch(smart, "eof") ELSE smart)
                    EXCEPT !.running = FALSE]

(***************************************************************************)
(* Terminals: MockTerminal (core/src/terminal/traits.rs) and PtySession    *)
(* (hostagent/src/pty.rs).  PtySession hands write and resize to the PTY   *)
(* master and is_alive / kill to the child handle; what those return is    *)
(* decided by the operating system.                                        *)
(***************************************************************************)
TermKinds == {"mock", "pty"}
TermSizes == {<<24, 80>>, <<40, 120>>}
OsResults == {"Ok", "Err"}

\* MockTerminal::new / PtySession::spawn with the default size; child is
\* "running", "signalled" (kill has returned) or "exited"
NewTerm(kind) ==
    [kind |-> kind, alive |-> TRUE, child |-> "running", size |-> <<24, 80>>,
     snapshot_data |-> <<>>, killed |-> FALSE, last |-> NoCall]

TermInit == \E k \in TermKinds : term = NewTerm(k)

Ret(t, op, ret) == [t EXCEPT !.last = [op |-> op, ret |-> ret]]

\* MockTerminal: `if !self.alive { return Err(Terminal is dead) }`
MockGuard(alive) == alive

\* MockTerminal::write / PtySession::write
TermWrite(os) ==
    term' = IF term.kind = "mock"
            THEN Ret(term, "write", IF MockGuard(term.alive) THEN "Ok" ELSE "Err")
            ELSE Ret(term, "write", os)

\* MockTerminal::read (PtySession has no read: its output is the byte channel)
TermRead ==
    /\ term.kind = "mock"
    /\ term' = Ret(term, "read", IF MockGuard(term.alive) THEN "Ok" ELSE "Err")

\* MockTerminal::resize / PtySession::resize
TermResize(sz, os) ==
    term' = IF term.kind = "mock"
            THEN IF MockGuard(term.alive)
                 THEN Ret([term EXCEPT !.size = sz], "resize", "Ok")
                 ELSE Ret(term, "resize", "Err")
            ELSE IF os = "Ok"
                 THEN Ret([term EXCEPT !.size = sz], "resize", "Ok")
                 ELSE Ret(term, "resize", "Err")

\* MockTerminal::kill / PtySession::kill (child.kill())
TermKill(os) ==
    term' = IF term.kind = "mock"
            THEN Ret([term EXCEPT !.alive = FALSE, !.killed = TRUE], "kill", "Ok")
            ELSE IF os = "Ok"
                 THEN Ret([term EXCEPT !.killed = TRUE,
                                       !.child = IF @ = "running" THEN "signalled" ELSE @],
                          "kill", "Ok")
                 ELSE Ret(term, "kill", "Err")

\* MockTerminal::set_snapshot_data
TermSetSnapshot(data) ==
    /\ term.kind = "mock"
    /\ term' = Ret([term EXCEPT !.snapshot_data = data], "set_snapshot_data", "Ok")

\* MockTerminal::get_snapshot
TermGetSnapshot ==
    /\ term.kind = "mock"
    /\ term' = Ret(term, "get_snapshot",
                   IF MockGuard(term.alive)
                   THEN <<term.snapshot_data, term.size[1], term.size[2]>>
                   ELSE "Err")

\* MockTerminal::size / PtySession::size
TermSize == term' = Ret(term, "size", term.size)

\* PtySession::is_alive: child.try_wait() returned Ok(None)
TermIsAlive ==
    /\ term.kind = "pty"
    /\ term' = Ret(term, "is_alive", term.child # "exited")

\* the child process terminates: after a signal, or on its own
TermChildExits ==
    /\ term.kind = "pty"
    /\ term.child # "exited"
    /\ term' = [term EXCEPT !.child = "exited"]

(***************************************************************************)
(* Allocation of numeric session ids (hostagent/src/session.rs).  Two      *)
(* callers run create_session / create_session_with_uuid concurrently;     *)
(* each call is three steps: next_id.fetch_add, PtySession::spawn, and the *)
(* insertion under the map locks.  log, failed, closed, reaped and overlap *)
(* record what has happened and are not read by the program.               *)
(***************************************************************************)
Callers == {"t1", "t2"}
CreateKinds == {"legacy"} \cup Uuids
IdleCall == [pc |-> "idle", id |-> 0, kind |-> "none"]

\* SessionManager::new: next_id = AtomicU64::new(1), empty maps
IdsNew ==
    [next_id |-> 1, call |-> [c \in Callers |-> IdleCall],
     sessions_legacy |-> {}, sessions_uuid |-> [u \in Uuids |-> 0], dead |-> {},
     log |-> <<>>, failed |-> {}, closed |-> {}, reaped |-> {}, overlap |-> FALSE]

IdsInit == ids = IdsNew

\* an allocation that hands out the value without advancing the counter
fetch_keep(n) == [prev |-> n, next |-> n]

\* AtomicU64::fetch_add(1, SeqCst): one indivisible step that returns the
\* previous value and stores the successor
fetch_add(n) == [prev |-> n, next |-> n + 1]

HeldIds(i) == (i.sessions_legacy \cup {i.sessions_uuid[u] : u \in Uuids}) \ {0}

\* let id = self.next_id.fetch_add(1, Ordering::SeqCst)
IdFetch(c, kind) ==
    /\ ids.call[c].pc = "idle"
    /\ ids.next_id <= MaxAlloc
    /\ LET r == fetch_add(ids.next_id)
       IN  ids' = [ids EXCEPT !.next_id = r.next,
                              !.call[c] = [pc |-> "fetched", id |-> r.prev, kind |-> kind],
                              !.log = Append(@, r.prev),
                              !.overlap = @ \/ \E d \in Callers \ {c} : ids.call[d].pc # "idle"]

\* PtySession::spawn(id, config)?: on Err the call returns, the id is spent
IdSpawn(c, ok) ==
    /\ ids.call[c].pc = "fetched"
    /\ ids' = IF ok
              THEN [ids EXCEPT !.call[c].pc = "spawned"]
              ELSE [ids EXCEPT !.call[c] = IdleCall, !.failed = @ \cup {ids.call[c].id}]

\* sessions.insert(id, session) / sessions.insert(session_id, session_data)
IdInsert(c) ==
    /\ ids.call[c].pc = "spawned"
    /\ LET id == ids.call[c].id
           k == ids.call[c].kind
       IN  ids' = IF k = "legacy"
                  THEN [ids EXCEPT !.call[c] = IdleCall, !.sessions_legacy = @ \cup {id}]
                  ELSE [ids EXCEPT !.call[c] = IdleCall, !.sessions_uuid[k] = id]

\* the child of a stored session exits
IdChildExit(n) ==
    /\ n \in HeldIds(ids) \ ids.dead
    /\ ids' = [ids EXCEPT !.dead = @ \cup {n}]

\* SessionManager::cleanup_session(id)
IdCleanup(n) ==
    /\ n \in ids.sessions_legacy
    /\ ids' = [ids EXCEPT !.sessions_legacy = @ \ {n}, !.closed = @ \cup {n}]

\* SessionManager::close_session(session_id)
IdCloseUuid(u) ==
    /\ ids.sessions_uuid[u] # 0
    /\ ids' = [ids EXCEPT !.sessions_uuid[u] = 0, !.closed = @ \cup {ids.sessions_uuid[u]}]

\* SessionManager::cleanup_dead_sessions: removes every session whose
\* is_alive() is false from both maps
IdReap ==
    /\ HeldIds(ids) \cap ids.dead # {}
    /\ ids' = [ids EXCEPT !.sessions_legacy = @ \ ids.dead,
                          !.sessions_uuid = [u \in Uuids |->
                              IF ids.sessions_uuid[u] \in ids.dead THEN 0
                              ELSE ids.sessions_uuid[u]],
                          !.reaped = @ \cup (HeldIds(ids) \cap ids.dead)]

(***************************************************************************)
(* SessionData.history (hostagent/src/session.rs): a VecDeque filled by    *)
(* add_history_line, one per UUID session.  The lines of a session are     *)
(* numbered in the order of insertion, so that any two are told apart;     *)
(* inserted records every line given to add_history_line and is not read   *)
(* by the program.                                                         *)
(***************************************************************************)
\* the literal in `if self.history.len() >= 100`
HistoryCap == 100

\* SessionData::new: history = VecDeque::with_capacity(100), empty
NewHistory == [history |-> <<>>, inserted |-> <<>>]

RingInit == ring = [u \in Uuids |-> NewHistory]

\* a test that lets the deque grow to 101 lines before it drops one
history_full_late(len) == len > HistoryCap

\* self.history.len() >= 100
history_full(len) == len >= HistoryCap

\* SessionData::add_history_line
add_history_line(h, line) ==
    LET kept == IF history_full(Len(h)) THEN Tail(h) ELSE h
    IN  Append(kept, line)

\* the history capture task (or add_to_history) inserts the next line of
\* session u
RingAdd(u) ==
    /\ Len(ring[u].inserted) < MaxLines
    /\ LET line == Len(ring[u].inserted) + 1
       IN  ring' = [ring EXCEPT ![u].history = add_history_line(@, line),
                                ![u].inserted = Append(@, line)]

(***************************************************************************)
(* The map locks of the session manager (hostagent/src/session.rs).  Two   *)
(* handler tasks work on one session each, the reaper scans both maps.     *)
(* Every operation takes the lock of its map and keeps the guard until the *)
(* function returns; the session mutex is only ever taken under the map    *)
(* lock and is not modelled apart.  PtySession::write is a blocking        *)
(* write_all on the PTY master: it does not return while the input buffer  *)
(* of the PTY is full and the child is alive.                              *)
(***************************************************************************)
Handlers == {"h1", "h2"}
LkSessions == {"x", "y"}
LkOps == {"create", "write", "resize", "close"}
Target(t) == IF t = "h1" THEN "x" ELSE "y"

NoSession == [state |-> "absent", alive |-> FALSE, full |-> FALSE, by |-> "none"]

\* SessionManager::new; each session is a legacy or a UUID session
LockInit ==
    \E kinds \in [LkSessions -> SessionKinds] :
        lk = [kind |-> kinds,
              lock |-> [k \in SessionKinds |-> "free"],
              task |-> [t \in Handlers |-> [pc |-> "idle", op |-> "none"]],
              reaper |-> "sleep",
              sess |-> [s \in LkSessions |-> NoSession]]

\* sess.write(data) cannot return: the PTY input buffer is full and the
\* child, still alive, does not read
WriteBlocks(l, s) ==
    l.sess[s].state = "stored" /\ l.sess[s].alive /\ l.sess[s].full

Blocked(t) ==
    /\ lk.task[t].pc = "locked"
    /\ lk.task[t].op = "write"
    /\ WriteBlocks(lk, Target(t))

\* let sessions = self.sessions_legacy.lock().await (or sessions_uuid)
LkBegin(t, op) ==
    /\ lk.task[t].pc = "idle"
    /\ op = "create" <=> lk.sess[Target(t)].state = "absent"
    /\ lk.lock[lk.kind[Target(t)]] = "free"
    /\ lk' = [lk EXCEPT !.lock[lk.kind[Target(t)]] = t,
                        !.task[t] = [pc |-> "locked", op |-> op]]

\* the operation under the guard, then the function returns and the guard
\* is dropped; fills is whether the written bytes fill the PTY input buffer
LkFinish(t, fills) ==
    /\ lk.task[t].pc = "locked"
    /\ ~Blocked(t)
    /\ LET s == Target(t)
           op == lk.task[t].op
           stored == lk.sess[s].state = "stored"
           after ==
              IF op = "create"
              THEN [state |-> "stored", alive |-> TRUE, full |-> FALSE, by |-> "none"]
              ELSE IF op = "close" /\ stored
              THEN [lk.sess[s] EXCEPT !.state = "removed", !.alive = FALSE,
                                      !.by = "close"]
              ELSE IF op = "write" /\ stored /\ lk.sess[s].alive
              THEN [lk.sess[s] EXCEPT !.full = fills]
              ELSE lk.sess[s]
       IN  lk' = [lk EXCEPT !.lock[lk.kind[s]] = "free",
                            !.task[t] = [pc |-> "idle", op |-> "none"],
                            !.sess[s] = after]

\* cleanup_dead_sessions: sessions_legacy.lock().await after the tick, and
\* sessions_uuid.lock().await after the legacy block
LkReapLock ==
    /\ lk.reaper \in {"sleep", "mid"}
    /\ LET k == IF lk.reaper = "sleep" THEN "legacy" ELSE "uuid"
       IN  /\ lk.lock[k] = "free"
           /\ lk' = [lk EXCEPT !.lock[k] = "reaper", !.reaper = k]

\* cleanup_dead_sessions: collect the entries with !is_alive(), remove them,
\* leave the block
LkReapScan ==
    /\ lk.reaper \in SessionKinds
    /\ LET k == lk.reaper
       IN  lk' = [lk EXCEPT
                   !.lock[k] = "free",
                   !.reaper = IF k = "legacy" THEN "mid" ELSE "sleep",
                   !.sess = [s \in LkSessions |->
                        IF lk.kind[s] = k /\ lk.sess[s].state = "stored"
                            /\ ~lk.sess[s].alive
                        THEN [lk.sess[s] EXCEPT !.state = "removed", !.by = "reaper"]
                        ELSE lk.sess[s]]]

\* the child reads its input
LkChildReads(s) ==
    /\ WriteBlocks(lk, s)
    /\ lk' = [lk EXCEPT !.sess[s].full = FALSE]

\* the child exits; a write on its PTY now returns
LkChildExits(s) ==
    /\ lk.sess[s].state = "stored" /\ lk.sess[s].alive
    /\ lk' = [lk EXCEPT !.sess[s].alive = FALSE]

(***************************************************************************)
(* pump_quic_to_pty (core/src/transport/stream.rs): the client-side pump   *)
(* from the receive stream to the PTY writer.  The stream carries the      *)
(* bytes in qp.input; qp.pos is the read position.  qp.got are the         *)
(* messages the loop decoded, qp.pty the bytes written to the PTY,         *)
(* qp.resized the resizes applied and qp.pongs the Pong replies sent.      *)
(***************************************************************************)
QpMsgs ==
    {MsgCommand(7, <<108, 115>>, 9), MsgInput(<<3>>), MsgResize(24, 80),
     MsgPing(0), MsgPing(200), MsgPong(42), MsgClose, Msg("StartShell")}

\* a frame around arbitrary bytes: 4-byte big-endian length, then the bytes
Framed(bytes) == to_be_bytes(Len(bytes)) \o bytes

RECURSIVE ConcatFrames(_)
ConcatFrames(ms) ==
    IF ms = <<>> THEN <<>> ELSE encode(Head(ms)) \o ConcatFrames(Tail(ms))

RECURSIVE ConcatNested(_)
ConcatNested(ms) ==
    IF ms = <<>> THEN <<>> ELSE Framed(encode(Head(ms))) \o ConcatNested(Tail(ms))

\* the stream holds encode(m1) encode(m2), or the same frames each wrapped
\* in a second length prefix; send is Some or None
QuicPumpInit ==
    \E m1 \in QpMsgs, m2 \in QpMsgs, nested \in BOOLEAN, has_send \in BOOLEAN :
        qp = [src |-> <<m1, m2>>, nested |-> nested,
              input |-> Buf(IF nested THEN ConcatNested(<<m1, m2>>)
                            ELSE ConcatFrames(<<m1, m2>>)),
              pos |-> 0, has_send |-> has_send, status |-> "run", err |-> "none",
              got |-> <<>>, pty |-> <<>>, resized |-> <<>>, pongs |-> <<>>]

\* the bytes [from, from + n) of the stream as a buffer of their own
Slice(b, from, n) == Buf([i \in 1..n |-> Byte(b, from + i - 1)])

QpFail(q, e) == [q EXCEPT !.status = "err", !.err = e]

\* the match on the decoded message
pump_dispatch(q, msg) ==
    CASE msg.t = "Command" -> [q EXCEPT !.pty = @ \o msg.data]
      [] msg.t = "Resize" -> q
      [] msg.t = "Ping" ->
           IF q.has_send THEN [q EXCEPT !.pongs = Append(@, MsgPong(msg.a))] ELSE q
      [] msg.t = "Pong" -> q
      [] msg.t = "Close" -> [q EXCEPT !.status = "ok"]
      [] OTHER -> q

\* one iteration of the loop of pump_quic_to_pty
pump_quic_to_pty_step(q) ==
    IF BLen(q.input) - q.pos < 4 THEN QpFail(q, "Connection")
    ELSE LET len == u32_be(q.input, q.pos)
         IN IF len > MAX_MESSAGE_SIZE THEN QpFail(q, "MessageTooLarge")
            ELSE IF BLen(q.input) - q.pos - 4 < len THEN QpFail(q, "Connection")
            ELSE LET data == Slice(q.input, q.pos + 4, len)
                     r == decode(data)
                     read == [q EXCEPT !.pos = q.pos + 4 + len]
                 IN IF r.err # "none" THEN QpFail(read, r.err)
                    ELSE pump_dispatch([read EXCEPT !.got = Append(@, r.msg)], r.msg)

QuicPumpStep ==
    /\ qp.status = "run"
    /\ qp' = pump_quic_to_pty_step(qp)

\* what the stream of frames asks for: the messages up to the first Close,
\* and their effects on the PTY, its size and the send stream
RECURSIVE UpToClose(_)
UpToClose(ms) ==
    IF ms = <<>> THEN <<>>
    ELSE IF Head(ms).t = "Close" THEN <<Head(ms)>>
    ELSE <<Head(ms)>> \o UpToClose(Tail(ms))

RECURSIVE WrittenBy(_)
WrittenBy(ms) ==
    IF ms = <<>> THEN <<>>
    ELSE (IF Head(ms).t \in {"Command", "Input"} THEN Head(ms).data ELSE <<>>)
             \o WrittenBy(Tail(ms))

RECURSIVE ResizedBy(_)
ResizedBy(ms) ==
    IF ms = <<>> THEN <<>>
    ELSE (IF Head(ms).t = "Resize" THEN <<<<Head(ms).a, Head(ms).b>>>> ELSE <<>>)
             \o ResizedBy(Tail(ms))

RECURSIVE PongsFor(_)
PongsFor(ms) ==
    IF ms = <<>> THEN <<>>
    ELSE (IF Head(ms).t = "Ping" THEN <<MsgPong(Head(ms).a)>> ELSE <<>>)
             \o PongsFor(Tail(ms))

(***************************************************************************)
(* The receive loop of handle_stream (hostagent/src/quic_server.rs) on its *)
(* own: recv.read into read_buf, append to recv_buffer, then the decode    *)
(* loop over try_decode_message.  acc.wire are the bytes the client has    *)
(* sent and the task has not read yet, acc.consumed the bytes the decode   *)
(* loop has taken out of recv_buffer, acc.handled the messages it has      *)
(* handed to the match.                                                    *)
(***************************************************************************)
READ_SIZE == 8192
MaxFillReads == 2050

\* a frame with an unknown variant index, and a header that declares
\* 16 MiB + 1 payload bytes
Undecodable == <<0, 0, 0, 1, 99>>
OverLength == <<1, 0, 0, 1>>
IsBad(f) == f \in {Undecodable, OverLength}

AccFrames ==
    {encode(MsgPing(0)), encode(MsgInput(<<3>>)), encode(MsgClose), Undecodable,
     OverLength}

\* sizes of the reads that recv.read returns, at most the 8192 of read_buf
ReadSizes == {4, 5, READ_SIZE}

AccInit ==
    \E f1 \in AccFrames, f2 \in AccFrames :
        acc = [sent |-> <<f1, f2>>, wire |-> f1 \o f2, recv_buffer |-> Buf(<<>>),
               pc |-> "read", consumed |-> 0, handled |-> 0, fills |-> 0]

Min(a, b) == IF a < b THEN a ELSE b

\* remaining.to_vec(): the buffer without its first k bytes
Remaining(b, k) ==
    IF k <= Len(b.data) THEN [data |-> SubSeq(b.data, k + 1, Len(b.data)), fill |-> b.fill]
    ELSE [data |-> <<>>, fill |-> b.fill - (k - Len(b.data))]

\* Ok(Some(n)): n bytes of the client arrive and are appended to recv_buffer
AccRead(k) ==
    /\ acc.pc = "read" /\ acc.wire # <<>>
    /\ LET n == Min(k, Len(acc.wire))
       IN acc' = [acc EXCEPT !.recv_buffer.data = @ \o SubSeq(acc.wire, 1, n),
                             !.wire = SubSeq(acc.wire, n + 1, Len(acc.wire)),
                             !.pc = "decode"]

\* the client goes on sending: a full read of zero bytes
AccReadFill ==
    /\ acc.pc = "read" /\ acc.wire = <<>> /\ acc.fills < MaxFillReads
    /\ acc' = [acc EXCEPT !.recv_buffer.fill = @ + READ_SIZE, !.fills = @ + 1,
                          !.pc = "decode"]

\* Ok(Some(0)), Ok(None) or Err: break, the task returns
AccEof ==
    /\ acc.pc = "read"
    /\ acc' = [acc EXCEPT !.pc = "done"]

\* one iteration of `while let Some((msg, remaining)) = try_decode_message(..)`:
\* the Close arm leaves the decode loop, a failed reply returns from the task
AccDecode(reply_ok) ==
    /\ acc.pc = "decode"
    /\ LET r == try_decode_message(acc.recv_buffer, 0)
       IN acc' = IF ~r.some THEN [acc EXCEPT !.pc = "read"]
                 ELSE [acc EXCEPT !.recv_buffer = Remaining(@, r.rest),
                                  !.consumed = @ + r.rest,
                                  !.handled = @ + 1,
                                  !.pc = IF r.msg.t = "Close" THEN "read"
                                         ELSE IF r.msg.t = "Ping" /\ ~reply_ok THEN "done"
                                         ELSE "decode"]

(***************************************************************************)
(* pump_pty_to_quic_tagged (core/src/transport/stream.rs): the history     *)
(* capture of the tagged pump.  Bytes are written as runs: X(n) is n       *)
(* one-byte characters, NL the newline, LEAD and TRAIL the two bytes of a  *)
(* two-byte character.  tag.stream is everything read from the PTY so far, *)
(* tag.history the lines handed to history_tx.                             *)
(***************************************************************************)
ACCUMULATOR_RESET == 10000
TAG_READ_SIZE == 8192
MaxTagReads == 4

X(n) == [c |-> "x", n |-> n]
NL == [c |-> "nl", n |-> 1]
LEAD == [c |-> "lead", n |-> 1]
TRAIL == [c |-> "trail", n |-> 1]

RECURSIVE ByteLen(_)
ByteLen(s) == IF s = <<>> THEN 0 ELSE Head(s).n + ByteLen(Tail(s))

\* extend_from_slice: concatenation, adjacent runs joined
Extend(s, t) ==
    IF s # <<>> /\ t # <<>> /\ s[Len(s)].c = "x" /\ Head(t).c = "x"
    THEN SubSeq(s, 1, Len(s) - 1) \o <<X(s[Len(s)].n + Head(t).n)>> \o Tail(t)
    ELSE s \o t

\* String::from_utf8(..).is_ok(): every lead byte is followed by its trail
\* byte and no trail byte stands alone
RECURSIVE utf8_ok(_, _)
utf8_ok(s, need) ==
    IF s = <<>> THEN ~need
    ELSE CASE Head(s).c = "lead" -> ~need /\ utf8_ok(Tail(s), TRUE)
           [] Head(s).c = "trail" -> need /\ utf8_ok(Tail(s), FALSE)
           [] OTHER -> ~need /\ utf8_ok(Tail(s), FALSE)

\* text.split('\n'): the segments between the newlines, the last one included
RECURSIVE split_nl(_, _)
split_nl(s, cur) ==
    IF s = <<>> THEN <<cur>>
    ELSE IF Head(s).c = "nl" THEN <<cur>> \o split_nl(Tail(s), <<>>)
    ELSE split_nl(Tail(s), Append(cur, Head(s)))

\* the test that guards the reset of the accumulator
OverReset(len) == len > ACCUMULATOR_RESET

\* the slow path on one chunk: [line_accumulator, the lines pushed]
capture(accumulator, data) ==
    LET a == Extend(accumulator, data)
    IN IF utf8_ok(a, FALSE)
       THEN LET segs == split_nl(a, <<>>)
                last == segs[Len(segs)]
                ends_with_nl == a[Len(a)].c = "nl"
            IN [accumulator |-> IF ~ends_with_nl /\ last # <<>> THEN last ELSE <<>>,
                lines |-> SubSeq(segs, 1, Len(segs) - 1)]
       ELSE [accumulator |-> IF OverReset(ByteLen(a)) THEN <<>> ELSE a,
             lines |-> <<>>]

\* the chunks a read returns, none longer than buf
TagChunks ==
    {<<X(3), NL, X(2)>>, <<X(2), LEAD>>, <<TRAIL, NL>>, <<NL>>,
     <<X(TAG_READ_SIZE - 1), LEAD>>, <<X(TAG_READ_SIZE)>>}

TaggedInit ==
    \E has_tx \in BOOLEAN :
        tag = [has_tx |-> has_tx, stream |-> <<>>, reads |-> 0, frames |-> 0,
               line_accumulator |-> <<>>, history |-> <<>>, status |-> "run"]

\* one iteration of the loop with n > 0: the frame is sent, then the chunk
\* is captured when there is a history sender
TaggedRead(data, sent) ==
    /\ tag.status = "run" /\ tag.reads < MaxTagReads
    /\ LET r == [tag EXCEPT !.stream = Extend(@, data), !.reads = @ + 1]
           c == capture(tag.line_accumulator, data)
       IN tag' = IF ~sent THEN [r EXCEPT !.status = "err"]
                 ELSE IF ~tag.has_tx THEN [r EXCEPT !.frames = @ + 1]
                 ELSE [r EXCEPT !.frames = @ + 1,
                                !.line_accumulator = c.accumulator,
                                !.history = @ \o c.lines]

\* n == 0: break, send.finish()
TaggedEof ==
    /\ tag.status = "run"
    /\ tag' = [tag EXCEPT !.status = "finished"]

\* what was read is a valid UTF-8 stream, possibly cut inside a character
ValidSoFar(s) == utf8_ok(s, FALSE) \/ utf8_ok(Extend(s, <<TRAIL>>), FALSE)

\* the newline-terminated lines of a stream
LinesOf(s) == LET segs == split_nl(s, <<>>) IN SubSeq(segs, 1, Len(segs) - 1)

(***************************************************************************)
(* SessionManager locks (session.rs).  Every map of the manager is an      *)
(* Arc<tokio::sync::Mutex<..>> and every PtySession sits behind its own    *)
(* mutex.  An operation is the list of lock().await points and guard       *)
(* drops it goes through, in program order; a guard that is not dropped by *)
(* hand is dropped where its block ends, in reverse order of declaration.  *)
(* One session mutex per map is kept: no operation holds two of them.      *)
(***************************************************************************)
DlLocks ==
    {"sessions_legacy", "outputs_legacy", "sessions_uuid", "history_senders",
     "pty_legacy", "pty_uuid"}

DlHandlers == {"h1", "h2"}

DlTasks == DlHandlers \cup {"reaper", "history"}

Lock(k) == <<"lock", k>>

Unlock(k) == <<"unlock", k>>

\* cleanup_session: both maps first, then the session's mutex for kill().
cleanup_session_locks_outputs_first(found) ==
    IF found
    THEN <<Lock("outputs_legacy"), Lock("sessions_legacy"), Lock("pty_legacy"),
           Unlock("pty_legacy"), Unlock("outputs_legacy"), Unlock("sessions_legacy")>>
    ELSE <<Lock("outputs_legacy"), Lock("sessions_legacy"),
           Unlock("outputs_legacy"), Unlock("sessions_legacy")>>

cleanup_session_locks(found) ==
    IF found
    THEN <<Lock("sessions_legacy"), Lock("outputs_legacy"), Lock("pty_legacy"),
           Unlock("pty_legacy"), Unlock("outputs_legacy"), Unlock("sessions_legacy")>>
    ELSE <<Lock("sessions_legacy"), Lock("outputs_legacy"),
           Unlock("outputs_legacy"), Unlock("sessions_legacy")>>

\* The operations a connection handler calls; operations with the same locks
\* are listed once (get_session stands for list_sessions and session_count,
\* write_to_session for resize_session, session_exists for get_history,
\* add_to_history, get_uuid_session, list_uuid_sessions and
\* uuid_session_count, write_to_uuid_session for resize_uuid_session).
HandlerOps ==
    {"create_session", "get_session", "write_to_session", "cleanup_session",
     "get_pty_reader", "create_session_with_uuid", "session_exists",
     "write_to_uuid_session", "close_session", "get_history_sender"}

OpsOf(t) ==
    IF t \in DlHandlers THEN HandlerOps
    ELSE IF t = "reaper" THEN {"cleanup_dead_sessions"}
    ELSE {"history_capture"}

\* found: the id is in the map (for the reaper: the maps are not empty).
lock_program(op, found) ==
    CASE op = "create_session" ->
           <<Lock("sessions_legacy"), Lock("outputs_legacy"),
             Unlock("outputs_legacy"), Unlock("sessions_legacy")>>
      [] op = "get_session" ->
           <<Lock("sessions_legacy"), Unlock("sessions_legacy")>>
      [] op = "write_to_session" ->
           IF found
           THEN <<Lock("sessions_legacy"), Lock("pty_legacy"),
                  Unlock("pty_legacy"), Unlock("sessions_legacy")>>
           ELSE <<Lock("sessions_legacy"), Unlock("sessions_legacy")>>
      [] op = "cleanup_session" -> cleanup_session_locks(found)
      [] op = "get_pty_reader" ->
           <<Lock("outputs_legacy"), Unlock("outputs_legacy")>>
      [] op = "create_session_with_uuid" ->
           <<Lock("sessions_uuid"), Lock("history_senders"),
             Unlock("history_senders"), Unlock("sessions_uuid")>>
      [] op = "session_exists" ->
           <<Lock("sessions_uuid"), Unlock("sessions_uuid")>>
      [] op = "write_to_uuid_session" ->
           IF found
           THEN <<Lock("sessions_uuid"), Lock("pty_uuid"),
                  Unlock("pty_uuid"), Unlock("sessions_uuid")>>
           ELSE <<Lock("sessions_uuid"), Unlock("sessions_uuid")>>
      [] op = "close_session" ->
           IF found
           THEN <<Lock("sessions_uuid"), Lock("pty_uuid"), Unlock("pty_uuid"),
                  Lock("history_senders"), Unlock("history_senders"),
                  Unlock("sessions_uuid")>>
           ELSE <<Lock("sessions_uuid"), Unlock("sessions_uuid")>>
      [] op = "get_history_sender" ->
           <<Lock("history_senders"), Unlock("history_senders")>>
      [] op = "cleanup_dead_sessions" ->
           IF found
           THEN <<Lock("sessions_legacy"), Lock("outputs_legacy"),
                  Lock("pty_legacy"), Unlock("pty_legacy"),
                  Unlock("outputs_legacy"), Unlock("sessions_legacy"),
                  Lock("sessions_uuid"), Lock("pty_uuid"), Unlock("pty_uuid"),
                  Unlock("sessions_uuid")>>
           ELSE <<Lock("sessions_legacy"), Lock("outputs_legacy"),
                  Unlock("outputs_legacy"), Unlock("sessions_legacy"),
                  Lock("sessions_uuid"), Unlock("sessions_uuid")>>
      [] op = "history_capture" ->
           <<Lock("sessions_uuid"), Unlock("sessions_uuid")>>

\* The order the operations nest their locks in: a map, then the registry
\* next to it, then a session's mutex.
LockRank(k) ==
    CASE k \in {"sessions_legacy", "sessions_uuid"} -> 1
      [] k \in {"outputs_legacy", "history_senders"} -> 2
      [] k \in {"pty_legacy", "pty_uuid"} -> 3

DeadlockInit ==
    dl = [prog  |-> [t \in DlTasks |-> <<>>],
          op    |-> [t \in DlTasks |-> "idle"],
          owner |-> [k \in DlLocks |-> "free"]]

\* A task enters an operation of the manager.
OpBegin(t, op, found) ==
    /\ dl.prog[t] = <<>>
    /\ op \in OpsOf(t)
    /\ dl' = [dl EXCEPT !.prog[t] = lock_program(op, found), !.op[t] = op]

\* lock().await returns once the mutex is free; dropping the guard frees it.
OpStep(t) ==
    /\ dl.prog[t] # <<>>
    /\ LET s == Head(dl.prog[t])
           rest == Tail(dl.prog[t])
           op == IF rest = <<>> THEN "idle" ELSE dl.op[t]
       IN IF s[1] = "lock"
          THEN /\ dl.owner[s[2]] = "free"
               /\ dl' = [dl EXCEPT !.prog[t] = rest, !.op[t] = op, !.owner[s[2]] = t]
          ELSE dl' = [dl EXCEPT !.prog[t] = rest, !.op[t] = op, !.owner[s[2]] = "free"]

HeldBy(t) == {k \in DlLocks : dl.owner[k] = t}

Requests(t, k) == dl.prog[t] # <<>> /\ Head(dl.prog[t]) = Lock(k)

Waiting(t) == \E k \in DlLocks : Requests(t, k) /\ dl.owner[k] # "free"

WaitsFor(t) == dl.owner[Head(dl.prog[t])[2]]

\* Following who waits for whom from t ends at a task that can take a step.
RECURSIVE Unblocks(_, _)
Unblocks(t, n) ==
    IF ~Waiting(t) THEN TRUE
    ELSE IF n = 0 THEN FALSE
    ELSE Unblocks(WaitsFor(t), n - 1)

(***************************************************************************)
(* Specification of the rate limiter alone: any sequence of API calls      *)
(***************************************************************************)
RateFrame == UNCHANGED <<tokVars, codecVars, srvVars, unitVars>>

RlCheck == \E ip \in Ips : Check(ip) /\ RateFrame
RlRefill == \E ip \in Ips : Refill(ip) /\ RateFrame
RlRecord == \E ip \in Ips : RecordAuthFailure(ip) /\ RateFrame
RlReset == \E ip \in Ips : ResetAuthFailures(ip) /\ RateFrame

IdleUnits ==
    /\ chan = NoCall /\ smart = NoCall /\ term = NoCall
    /\ ids = NoCall /\ ring = NoCall /\ lk = NoCall /\ qp = NoCall /\ acc = NoCall /\ tag = NoCall /\ dl = NoCall
IdleTok == valid_tokens = EmptyStore /\ now = 0 /\ nticks = 0 /\ tok_result = NoCall
IdleCodec ==
    /\ c_in = Buf(<<>>) /\ c_src = <<>>
    /\ ds = LoopStart /\ td = LoopStart /\ dec = NoCall

SpecRateInit == RateInit /\ IdleTok /\ IdleCodec /\ SrvInit /\ IdleUnits
SpecRateNext == RlCheck \/ RlRefill \/ RlRecord \/ RlReset
vars == <<rateVars, tokVars, codecVars, srvVars, unitVars>>
SpecRate == SpecRateInit /\ [][SpecRateNext]_vars

(***************************************************************************)
(* Specification of the token store alone                                  *)
(***************************************************************************)
TokFrame == UNCHANGED <<rateVars, codecVars, srvVars, unitVars>>

TsAdd == \E t \in Tokens : AddToken(t) /\ TokFrame
TsGenerate == GenerateToken /\ TokFrame
TsRemove == \E t \in Tokens : RemoveToken(t) /\ TokFrame
TsClear == ClearTokens /\ TokFrame
TsValidate == \E t \in Tokens : Validate(t) /\ TokFrame
TsCleanup == CleanupExpired /\ TokFrame
TsTick == \E d \in TickSteps : Tick(d) /\ TokFrame

SpecTokInit == TokInit /\ RateInit /\ IdleCodec /\ SrvInit /\ IdleUnits
SpecTokNext == TsAdd \/ TsGenerate \/ TsRemove \/ TsClear \/ TsValidate \/ TsCleanup \/ TsTick
SpecTok == SpecTokInit /\ [][SpecTokNext]_vars

(***************************************************************************)
(* Specification of the codec: a buffer is drawn, the decoders run on it   *)
(***************************************************************************)
CodecFrame == UNCHANGED <<rateVars, tokVars, srvVars, unitVars>>

CdDecode == Decode /\ CodecFrame
CdDecodeStream == DecodeStreamStep /\ CodecFrame
CdTryDecode == TryDecodeStep /\ CodecFrame

SpecCodecInit == CodecInit /\ RateInit /\ IdleTok /\ SrvInit /\ IdleUnits
SpecCodecNext == CdDecode \/ CdDecodeStream \/ CdTryDecode
SpecCodec == SpecCodecInit /\ [][SpecCodecNext]_vars

(***************************************************************************)
(* Specifications of the connection runtime.  The server starts with the   *)
(* one token main() generates; clients open streams and send frames.       *)
(***************************************************************************)
SrvFrame == UNCHANGED <<tokVars, codecVars, unitVars>>

ServerStart ==
    /\ SrvInit
    /\ IdleUnits
    /\ RateInit
    /\ valid_tokens = [t \in {"T1"} |-> 0]
    /\ now = 0 /\ nticks = 0 /\ tok_result = NoCall
    /\ IdleCodec

HelloTokens == {NoToken, "T1", "T2"}
Versions == {PROTOCOL_VERSION, PROTOCOL_VERSION + 1}

\* dispatch: one stream, every arm of the match, every environment step
DiOpen == \E ip \in Ips : OpenStream("s1", ip, MaxAuthFrames) /\ SrvFrame
DiHello == \E t \in HelloTokens, v \in Versions : DoHello("s1", t, v) /\ SrvFrame
DiInput == DoInput("s1") /\ SrvFrame
DiCommand == DoCommand("s1") /\ SrvFrame
DiPing == \E ts \in Timestamps : DoPing("s1", ts) /\ SrvFrame
DiResize == DoResize("s1") /\ SrvFrame
DiClose == DoClose("s1") /\ SrvFrame
DiListDir == \E found \in BOOLEAN : DoListDir("s1", found) /\ SrvFrame
DiUnhandled == \E k \in UnhandledKinds : DoUnhandled("s1", k) /\ SrvFrame
DiCreateSession ==
    \E u \in Uuids, e \in BOOLEAN : DoCreateSession("s1", u, e) /\ SrvFrame
DiCheckSession == \E u \in Uuids : DoCheckSession("s1", u) /\ SrvFrame
DiSwitchSession == \E u \in Uuids : DoSwitchSession("s1", u) /\ SrvFrame
DiTake == SwTake("s1") /\ SrvFrame
DiCloseSession == \E u \in Uuids : DoCloseSession("s1", u) /\ SrvFrame
DiListSessions == DoListSessions("s1") /\ SrvFrame
DiSend == HandlerSend("s1") /\ SrvFrame
DiEof == StreamEof("s1") /\ SrvFrame
DiPumpAcquire == \E n \in PtyIds : PumpAcquire(n) /\ SrvFrame
DiPumpEmit == \E n \in PtyIds, nl \in BOOLEAN : PumpEmit(n, nl) /\ SrvFrame
DiPumpEof == \E n \in PtyIds : PumpEof(n) /\ SrvFrame
DiPtyOutput == \E n \in PtyIds : PtyOutput(n) /\ SrvFrame
DiChildExit == \E n \in PtyIds : ChildExit(n) /\ SrvFrame
DiReaper == Reaper /\ SrvFrame

SpecDispatchNext ==
    \/ DiOpen \/ DiHello \/ DiInput \/ DiCommand \/ DiPing \/ DiResize \/ DiClose
    \/ DiListDir \/ DiUnhandled \/ DiCreateSession \/ DiCheckSession
    \/ DiSwitchSession \/ DiTake \/ DiCloseSession \/ DiListSessions \/ DiSend
    \/ DiEof \/ DiPumpAcquire \/ DiPumpEmit \/ DiPumpEof \/ DiPtyOutput
    \/ DiChildExit \/ DiReaper
SpecDispatch == ServerStart /\ [][SpecDispatchNext]_vars

\* bans: streams of two peers that authenticate or fail to, and use a shell
BnOpen == \E s \in Streams, ip \in Ips : OpenStream(s, ip, MaxBanFrames) /\ SrvFrame
BnHello ==
    \E s \in Streams, t \in HelloTokens, v \in Versions : DoHello(s, t, v) /\ SrvFrame
BnInput == \E s \in Streams : DoInput(s) /\ SrvFrame
BnSend == \E s \in Streams : HandlerSend(s) /\ SrvFrame
BnEof == \E s \in Streams : StreamEof(s) /\ SrvFrame
BnPumpAcquire == \E n \in PtyIds : PumpAcquire(n) /\ SrvFrame
BnPumpEmit == \E n \in PtyIds, nl \in BOOLEAN : PumpEmit(n, nl) /\ SrvFrame
BnPumpEof == \E n \in PtyIds : PumpEof(n) /\ SrvFrame
BnPtyOutput == \E n \in PtyIds : PtyOutput(n) /\ SrvFrame

SpecBanNext ==
    \/ BnOpen \/ BnHello \/ BnInput \/ BnSend \/ BnEof \/ BnPumpAcquire
    \/ BnPumpEmit \/ BnPumpEof \/ BnPtyOutput
SpecBan == ServerStart /\ [][SpecBanNext]_vars

\* session switching: one stream of an authenticating client, two uuids
SwOpen == OpenStream("s1", "ip1", MaxFrames) /\ SrvFrame
SwHello == DoHello("s1", "T1", PROTOCOL_VERSION) /\ SrvFrame
SwInput == DoInput("s1") /\ SrvFrame
SwCreateSession == \E u \in Uuids : DoCreateSession("s1", u, TRUE) /\ SrvFrame
SwSwitchSession == \E u \in Uuids : DoSwitchSession("s1", u) /\ SrvFrame
SwSwTake == SwTake("s1") /\ SrvFrame
SwCloseSession == \E u \in Uuids : DoCloseSession("s1", u) /\ SrvFrame
SwSend == HandlerSend("s1") /\ SrvFrame
SwEof == StreamEof("s1") /\ SrvFrame
SwPumpAcquire == \E n \in PtyIds : PumpAcquire(n) /\ SrvFrame
SwPumpEmit == \E n \in PtyIds, nl \in BOOLEAN : PumpEmit(n, nl) /\ SrvFrame
SwPumpEof == \E n \in PtyIds : PumpEof(n) /\ SrvFrame
SwPtyOutput == \E n \in PtyIds : PtyOutput(n) /\ SrvFrame
SwChildExit == \E n \in PtyIds : ChildExit(n) /\ SrvFrame
SwReaper == Reaper /\ SrvFrame

SpecSwitchNext ==
    \/ SwOpen \/ SwHello \/ SwInput \/ SwCreateSession \/ SwSwitchSession
    \/ SwSwTake \/ SwCloseSession \/ SwSend \/ SwEof \/ SwPumpAcquire
    \/ SwPumpEmit \/ SwPumpEof \/ SwPtyOutput \/ SwChildExit \/ SwReaper
SpecSwitch == ServerStart /\ [][SpecSwitchNext]_vars

\* the byte channel of one session, legacy or UUID
ChanFrame == UNCHANGED <<rateVars, tokVars, codecVars, srvVars, smart, term, ids, ring, lk, qp, acc, tag, dl>>
CnSpawn == \E k \in SessionKinds : ChSpawn(k) /\ ChanFrame
CnInsertLegacy == ChInsertLegacy /\ ChanFrame
CnReturnUuid == ChReturnUuid /\ ChanFrame
CnReaderSend == \E k \in SessionKinds : ChReaderSend(k) /\ ChanFrame
CnGetReader == ChGetReader /\ ChanFrame
CnRecv == \E k \in SessionKinds : ChRecv(k) /\ ChanFrame
CnTeardown == \E k \in SessionKinds : ChTeardown(k) /\ ChanFrame

SpecChanInit ==
    /\ ChanInit /\ RateInit /\ IdleTok /\ IdleCodec /\ SrvInit
    /\ smart = NoCall /\ term = NoCall /\ ids = NoCall /\ ring = NoCall /\ lk = NoCall /\ qp = NoCall /\ acc = NoCall /\ tag = NoCall /\ dl = NoCall
SpecChanNext ==
    \/ CnSpawn \/ CnInsertLegacy \/ CnReturnUuid \/ CnReaderSend \/ CnGetReader
    \/ CnRecv \/ CnTeardown
SpecChan == SpecChanInit /\ [][SpecChanNext]_vars

\* the smart pump fed by a PTY that writes chunks at any time
SmartFrame == UNCHANGED <<rateVars, tokVars, codecVars, srvVars, chan, term, ids, ring, lk, qp, acc, tag, dl>>
SpChunk == \E n \in ChunkSizes, nl \in BOOLEAN : SmChunk(n, nl) /\ SmartFrame
SpTimeout == SmTimeout /\ SmartFrame
SpTick == SmTick /\ SmartFrame
SpEof == SmEof /\ SmartFrame

SpecSmartInit ==
    /\ SmartInit /\ RateInit /\ IdleTok /\ IdleCodec /\ SrvInit
    /\ chan = NoCall /\ term = NoCall /\ ids = NoCall /\ ring = NoCall /\ lk = NoCall /\ qp = NoCall /\ acc = NoCall /\ tag = NoCall /\ dl = NoCall
SpecSmartNext == SpChunk \/ SpTimeout \/ SpTick \/ SpEof
SpecSmart == SpecSmartInit /\ [][SpecSmartNext]_vars

(***************************************************************************)
(* Specification of pump_pty_to_quic_smart with the three presets of       *)
(* BufferConfig and reads of up to 8192 bytes                              *)
(***************************************************************************)
PeChunk ==
    \E n \in PresetReads, nl \in BOOLEAN :
        smart.reads < MaxPresetReads /\ SmChunk(n, nl) /\ SmartFrame
PeSleep == SmSleep /\ SmartFrame
PeTimeout == SmTimeout /\ SmartFrame
PeEof == SmEof /\ SmartFrame

SpecPresetsInit ==
    /\ PresetInit /\ RateInit /\ IdleTok /\ IdleCodec /\ SrvInit
    /\ chan = NoCall /\ term = NoCall /\ ids = NoCall /\ ring = NoCall /\ lk = NoCall
    /\ qp = NoCall /\ acc = NoCall /\ tag = NoCall /\ dl = NoCall
SpecPresetsNext == PeChunk \/ PeSleep \/ PeTimeout \/ PeEof
SpecPresets == SpecPresetsInit /\ [][SpecPresetsNext]_vars

\* a terminal driven by any sequence of calls
TermFrame == UNCHANGED <<rateVars, tokVars, codecVars, srvVars, chan, smart, ids, ring, lk, qp, acc, tag, dl>>
TmWrite == \E os \in OsResults : TermWrite(os) /\ TermFrame
TmRead == TermRead /\ TermFrame
TmResize == \E sz \in TermSizes, os \in OsResults : TermResize(sz, os) /\ TermFrame
TmKill == \E os \in OsResults : TermKill(os) /\ TermFrame
TmIsAlive == TermIsAlive /\ TermFrame
TmSetSnapshot == \E d \in {<<>>, <<7>>} : TermSetSnapshot(d) /\ TermFrame
TmGetSnapshot == TermGetSnapshot /\ TermFrame
TmSize == TermSize /\ TermFrame
TmChildExits == TermChildExits /\ TermFrame

SpecTermInit ==
    /\ TermInit /\ RateInit /\ IdleTok /\ IdleCodec /\ SrvInit
    /\ chan = NoCall /\ smart = NoCall /\ ids = NoCall /\ ring = NoCall /\ lk = NoCall /\ qp = NoCall /\ acc = NoCall /\ tag = NoCall /\ dl = NoCall
SpecTermNext ==
    \/ TmWrite \/ TmRead \/ TmResize \/ TmKill \/ TmIsAlive \/ TmSetSnapshot
    \/ TmGetSnapshot \/ TmSize \/ TmChildExits
SpecTerm == SpecTermInit /\ [][SpecTermNext]_vars

(***************************************************************************)
(* Specification of the id allocation alone                                *)
(***************************************************************************)
IdsFrame == UNCHANGED <<rateVars, tokVars, codecVars, srvVars, chan, smart, term, ring, lk, qp, acc, tag, dl>>
IaFetch == \E c \in Callers, k \in CreateKinds : IdFetch(c, k) /\ IdsFrame
IaSpawn == \E c \in Callers, ok \in BOOLEAN : IdSpawn(c, ok) /\ IdsFrame
IaInsert == \E c \in Callers : IdInsert(c) /\ IdsFrame
IaChildExit == \E n \in 1..MaxAlloc : IdChildExit(n) /\ IdsFrame
IaCleanup == \E n \in 1..MaxAlloc : IdCleanup(n) /\ IdsFrame
IaCloseUuid == \E u \in Uuids : IdCloseUuid(u) /\ IdsFrame
IaReap == IdReap /\ IdsFrame

SpecIdsInit ==
    /\ IdsInit /\ RateInit /\ IdleTok /\ IdleCodec /\ SrvInit
    /\ chan = NoCall /\ smart = NoCall /\ term = NoCall /\ ring = NoCall /\ lk = NoCall /\ qp = NoCall /\ acc = NoCall /\ tag = NoCall /\ dl = NoCall
SpecIdsNext ==
    \/ IaFetch \/ IaSpawn \/ IaInsert \/ IaChildExit \/ IaCleanup \/ IaCloseUuid
    \/ IaReap
SpecIds == SpecIdsInit /\ [][SpecIdsNext]_vars

(***************************************************************************)
(* Specification of the history buffers alone                              *)
(***************************************************************************)
RingFrame == UNCHANGED <<rateVars, tokVars, codecVars, srvVars, chan, smart, term, ids, lk, qp, acc, tag, dl>>
RgAdd == \E u \in Uuids : RingAdd(u) /\ RingFrame

SpecRingInit ==
    /\ RingInit /\ RateInit /\ IdleTok /\ IdleCodec /\ SrvInit
    /\ chan = NoCall /\ smart = NoCall /\ term = NoCall /\ ids = NoCall /\ lk = NoCall /\ qp = NoCall /\ acc = NoCall /\ tag = NoCall /\ dl = NoCall
SpecRingNext == RgAdd
SpecRing == SpecRingInit /\ [][SpecRingNext]_vars

(***************************************************************************)
(* Specification of the map locks alone.  A task that can go on does go    *)
(* on; the tokio mutex hands the lock to its waiters in turn, so the       *)
(* reaper obtains a lock that becomes free again and again.                *)
(***************************************************************************)
LockFrame == UNCHANGED <<rateVars, tokVars, codecVars, srvVars, chan, smart, term, ids, ring, qp, acc, tag, dl>>
LoBegin == \E t \in Handlers, op \in LkOps : LkBegin(t, op) /\ LockFrame
LoFinishOf(t) == \E fills \in BOOLEAN : LkFinish(t, fills) /\ LockFrame
LoFinish == \E t \in Handlers : LoFinishOf(t)
LoReapLock == LkReapLock /\ LockFrame
LoReapScan == LkReapScan /\ LockFrame
LoChildReads == \E s \in LkSessions : LkChildReads(s) /\ LockFrame
LoChildExits == \E s \in LkSessions : LkChildExits(s) /\ LockFrame

SpecLocksInit ==
    /\ LockInit /\ RateInit /\ IdleTok /\ IdleCodec /\ SrvInit
    /\ chan = NoCall /\ smart = NoCall /\ term = NoCall /\ ids = NoCall /\ ring = NoCall /\ qp = NoCall /\ acc = NoCall /\ tag = NoCall /\ dl = NoCall
SpecLocksNext ==
    \/ LoBegin \/ LoFinish \/ LoReapLock \/ LoReapScan \/ LoChildReads \/ LoChildExits
SpecLocksFair ==
    /\ \A t \in Handlers : WF_vars(LoFinishOf(t))
    /\ SF_vars(LoReapLock) /\ WF_vars(LoReapScan)
SpecLocks == SpecLocksInit /\ [][SpecLocksNext]_vars /\ SpecLocksFair

(***************************************************************************)
(* Specification of pump_quic_to_pty alone: a stream is drawn, the loop    *)
(* runs on it until it returns                                             *)
(***************************************************************************)
QpFrame == UNCHANGED <<rateVars, tokVars, codecVars, srvVars, chan, smart, term, ids, ring, lk, acc, tag, dl>>
QpStep == QuicPumpStep /\ QpFrame

SpecQuicPumpInit ==
    /\ QuicPumpInit /\ RateInit /\ IdleTok /\ IdleCodec /\ SrvInit
    /\ chan = NoCall /\ smart = NoCall /\ term = NoCall /\ ids = NoCall /\ ring = NoCall
    /\ lk = NoCall /\ acc = NoCall /\ tag = NoCall /\ dl = NoCall
SpecQuicPumpNext == QpStep
SpecQuicPump == SpecQuicPumpInit /\ [][SpecQuicPumpNext]_vars

(***************************************************************************)
(* Specification of the receive loop alone: the client sends two frames    *)
(* and may then go on sending                                              *)
(***************************************************************************)
AccFrame == UNCHANGED <<rateVars, tokVars, codecVars, srvVars, chan, smart, term, ids, ring, lk, qp, tag, dl>>
AcRead == \E k \in ReadSizes : AccRead(k) /\ AccFrame
AcReadFill == AccReadFill /\ AccFrame
AcEof == AccEof /\ AccFrame
AcDecode == \E reply_ok \in BOOLEAN : AccDecode(reply_ok) /\ AccFrame

SpecRecvInit ==
    /\ AccInit /\ RateInit /\ IdleTok /\ IdleCodec /\ SrvInit
    /\ chan = NoCall /\ smart = NoCall /\ term = NoCall /\ ids = NoCall /\ ring = NoCall
    /\ lk = NoCall /\ qp = NoCall /\ tag = NoCall /\ dl = NoCall
SpecRecvNext == AcRead \/ AcReadFill \/ AcEof \/ AcDecode
SpecRecv == SpecRecvInit /\ [][SpecRecvNext]_vars

(***************************************************************************)
(* Specification of the tagged pump alone: any sequence of reads, then EOF *)
(***************************************************************************)
TagFrame == UNCHANGED <<rateVars, tokVars, codecVars, srvVars, chan, smart, term, ids, ring, lk, qp, acc, dl>>
TgRead == \E data \in TagChunks, sent \in BOOLEAN : TaggedRead(data, sent) /\ TagFrame
TgEof == TaggedEof /\ TagFrame

SpecTaggedInit ==
    /\ TaggedInit /\ RateInit /\ IdleTok /\ IdleCodec /\ SrvInit
    /\ chan = NoCall /\ smart = NoCall /\ term = NoCall /\ ids = NoCall /\ ring = NoCall
    /\ lk = NoCall /\ qp = NoCall /\ acc = NoCall /\ dl = NoCall
SpecTaggedNext == TgRead \/ TgEof
SpecTagged == SpecTaggedInit /\ [][SpecTaggedNext]_vars

\* keep-alive: one stream of an authenticated client with a legacy shell;
\* the handler and the pump tasks are scheduled fairly, the client, the
\* shell and the reaper are not obliged to act
PgOpen == OpenStream("s1", "ip1", MaxPingFrames) /\ SrvFrame
PgHello == DoHello("s1", "T1", PROTOCOL_VERSION) /\ SrvFrame
PgInput == DoInput("s1") /\ SrvFrame
PgPing == \E ts \in Timestamps : DoPing("s1", ts) /\ SrvFrame
PgSend == HandlerSend("s1") /\ SrvFrame
PgEof == StreamEof("s1") /\ SrvFrame
PgPumpAcquire == \E n \in PtyIds : PumpAcquire(n) /\ SrvFrame
PgPumpEmit == \E n \in PtyIds, nl \in BOOLEAN : PumpEmit(n, nl) /\ SrvFrame
PgPumpEof == \E n \in PtyIds : PumpEof(n) /\ SrvFrame
PgPtyOutput == \E n \in PtyIds : PtyOutput(n) /\ SrvFrame
PgChildExit == \E n \in PtyIds : ChildExit(n) /\ SrvFrame
PgReaper == Reaper /\ SrvFrame

SpecPingNext ==
    \/ PgOpen \/ PgHello \/ PgInput \/ PgPing \/ PgSend \/ PgEof
    \/ PgPumpAcquire \/ PgPumpEmit \/ PgPumpEof \/ PgPtyOutput \/ PgChildExit
    \/ PgReaper
SpecPingFair ==
    /\ WF_vars(PgSend) /\ WF_vars(PgPumpAcquire)
    /\ WF_vars(PgPumpEmit) /\ WF_vars(PgPumpEof)
SpecPing == ServerStart /\ [][SpecPingNext]_vars /\ SpecPingFair

(***************************************************************************)
(* Specification of the ways the task of one stream ends: end of the read  *)
(* loop, or a write that fails after the peer has gone                     *)
(***************************************************************************)
ExOpen == OpenStream("s1", "ip1", MaxPingFrames) /\ SrvFrame
ExHello == DoHello("s1", "T1", PROTOCOL_VERSION) /\ SrvFrame
ExInput == DoInput("s1") /\ SrvFrame
ExPing == \E ts \in Timestamps : DoPing("s1", ts) /\ SrvFrame
ExClose == DoClose("s1") /\ SrvFrame
ExSend == HandlerSend("s1") /\ SrvFrame
ExPeerStop == PeerStop("s1") /\ SrvFrame
ExEof == StreamEof("s1") /\ SrvFrame
ExPumpAcquire == \E n \in PtyIds : PumpAcquire(n) /\ SrvFrame
ExPumpEmit == \E n \in PtyIds, nl \in BOOLEAN : PumpEmit(n, nl) /\ SrvFrame
ExPumpEof == \E n \in PtyIds : PumpEof(n) /\ SrvFrame
ExPtyOutput == \E n \in PtyIds : PtyOutput(n) /\ SrvFrame
ExChildExit == \E n \in PtyIds : ChildExit(n) /\ SrvFrame
ExReaper == Reaper /\ SrvFrame

SpecExitNext ==
    \/ ExOpen \/ ExHello \/ ExInput \/ ExPing \/ ExClose \/ ExSend \/ ExPeerStop
    \/ ExEof \/ ExPumpAcquire \/ ExPumpEmit \/ ExPumpEof \/ ExPtyOutput
    \/ ExChildExit \/ ExReaper
SpecExit == ServerStart /\ [][SpecExitNext]_vars

\* the same runtime with its tasks scheduled fairly: the stream handler sends
\* the frame it holds, each pump task takes its next step, and the reaper,
\* woken every 30 seconds, runs; the client and the shell are not obliged to
\* act
EofPumpOf(n) ==
    (PumpAcquire(n) \/ (\E nl \in BOOLEAN : PumpEmit(n, nl)) \/ PumpEof(n)) /\ SrvFrame
SpecEofFair ==
    /\ WF_vars(ExSend) /\ WF_vars(ExReaper)
    /\ \A n \in PtyIds : WF_vars(EofPumpOf(n))
SpecEof == ServerStart /\ [][SpecExitNext]_vars /\ SpecEofFair

(***************************************************************************)
(* Specification of the manager's locks: two connection handlers, the      *)
(* cleanup task and a history capture task call the operations at will.    *)
(***************************************************************************)
DlFrame == UNCHANGED <<rateVars, tokVars, codecVars, srvVars, chan, smart, term, ids, ring, lk, qp, acc, tag>>

DlBegin == \E t \in DlTasks, found \in BOOLEAN : \E op \in OpsOf(t) : OpBegin(t, op, found) /\ DlFrame

DlStep == \E t \in DlTasks : OpStep(t) /\ DlFrame

SpecDeadlockInit ==
    /\ DeadlockInit /\ RateInit /\ IdleTok /\ IdleCodec /\ SrvInit
    /\ chan = NoCall /\ smart = NoCall /\ term = NoCall /\ ids = NoCall /\ ring = NoCall
    /\ lk = NoCall /\ qp = NoCall /\ acc = NoCall /\ tag = NoCall

SpecDeadlockNext == DlBegin \/ DlStep

SpecDeadlock == SpecDeadlockInit /\ [][SpecDeadlockNext]_vars

(***************************************************************************)
(* Claims                                                                  *)
(***************************************************************************)

\* the pumps of a stream whose task exists: spawned, or running with the lock
LivePumps(s) ==
    {n \in PtyIds : pty[n].pstream = s /\ pty[n].pump \in {"spawned", "running"}}

\* C1: on every stream, while the authenticated flag is false no PTY session
\* has been created, written to, resized, switched to or closed on behalf of
\* the stream, and the stream owns no session and no pump, whatever frames
\* arrived.
C1_NoEffectBeforeAuth ==
    \A s \in Streams :
        ~streams[s].authenticated =>
            /\ streams[s].effects = {}
            /\ streams[s].session_id = 0
            /\ streams[s].active_session_id = None
            /\ LivePumps(s) = {}

\* an unauthenticated stream whose client sent all its frames, among them a
\* refused session-affecting frame and a Resize
C1_Witness ==
    /\ streams["s1"].pc = "read"
    /\ ~streams["s1"].authenticated
    /\ streams["s1"].left = 0
    /\ streams["s1"].refused # None
    /\ streams["s1"].pending_resize

\* C2: a stream opened from an ip that was banned at that time never becomes
\* authenticated and never owns a session.
C2_BannedStreamRefused ==
    \A s \in Streams :
        streams[s].banned_at_open =>
            ~streams[s].authenticated /\ streams[s].session_id = 0

C19_IdsNeverReused ==
    /\ \A i, j \in DOMAIN ids.log : i < j => ids.log[i] < ids.log[j]
    /\ \A c, d \in Callers :
        c # d /\ ids.call[c].pc # "idle" /\ ids.call[d].pc # "idle"
            => ids.call[c].id # ids.call[d].id
    /\ \A c \in Callers :
        ids.call[c].pc # "idle" =>
            ids.call[c].id \notin
                HeldIds(ids) \cup ids.failed \cup ids.closed \cup ids.reaped
    /\ HeldIds(ids) \cap (ids.failed \cup ids.closed \cup ids.reaped) = {}
    /\ \A u \in Uuids : ids.sessions_uuid[u] \notin ids.sessions_legacy
    /\ \A u, v \in Uuids :
        u # v /\ ids.sessions_uuid[u] # 0 => ids.sessions_uuid[u] # ids.sessions_uuid[v]

\* two create calls overlapped, one spawn failed, one session was closed and
\* one reaped, and a session created after all of them is stored
C19_Witness ==
    /\ ids.overlap /\ ids.failed # {} /\ ids.closed # {} /\ ids.reaped # {}
    /\ \E n \in HeldIds(ids) :
        \A m \in ids.failed \cup ids.closed \cup ids.reaped : m < n

\* C20: after n insertions a session's history is exactly the last
\* min(n, 100) inserted lines, oldest first, and it never holds more than
\* 100 lines.
C20_HistoryIsLastLines ==
    \A u \in Uuids :
        LET n == Len(ring[u].inserted)
            k == IF n < HistoryCap THEN n ELSE HistoryCap
        IN  /\ ring[u].history = SubSeq(ring[u].inserted, n - k + 1, n)
            /\ Len(ring[u].history) <= HistoryCap

\* one session has taken more than 100 lines and has dropped its oldest ones,
\* the other is still below 100
C20_Witness ==
    /\ Len(ring["A"].inserted) = HistoryCap + 2
    /\ Len(ring["A"].history) = HistoryCap
    /\ ring["A"].history[1] = 3
    /\ Len(ring["B"].inserted) = 5

\* C18: after kill() every write, resize and read on the terminal fails and
\* is_alive reports false.
C18_DeadTerminalFails ==
    term.killed =>
        /\ term.last.op \in {"write", "resize", "read"} => term.last.ret = "Err"
        /\ term.last.op = "is_alive" => term.last.ret = FALSE

\* C16: after a Hello that failed authentication the server has sent the
\* placeholder Hello (auth_token = None) and the stream is closed: it reads
\* no further frame and its authenticated flag stays false.
C16_FailedHelloCloses ==
    \A s \in Streams :
        streams[s].fail_cause # None =>
            /\ streams[s].fail_reply = hello(NoToken)
            /\ ~streams[s].authenticated
            /\ streams[s].pc # "read"

\* C17: the frame the server sends for a failed authentication is the same
\* on any two streams, whatever the cause of each failure (token missing,
\* token wrong, peer banned).
C17_FailureReplyUniform ==
    \A s, t \in Streams :
        streams[s].fail_cause # None /\ streams[t].fail_cause # None =>
            streams[s].fail_reply = streams[t].fail_reply

\* two streams that failed for different reasons, both replies written
C17_Witness ==
    /\ streams["s1"].fail_cause = "banned"
    /\ streams["s2"].fail_cause = "missing"
    /\ streams["s1"].wire[2] = streams["s1"].fail_reply
    /\ streams["s2"].wire[2] = streams["s2"].fail_reply

\* C15: after a successful Hello, RequestPty makes the server create a PTY
\* session for the stream, and StartShell starts an output pump for it.
C15_ExplicitBootstrap ==
    \A s \in Streams :
        /\ streams[s].explicit # None =>
                streams[s].session_id # 0 /\ Held(mgr, streams[s].session_id)
        /\ streams[s].explicit = "StartShell" => LivePumps(s) # {}

\* C14: with flush_on_newline = true no byte stays in the batch longer than
\* max_flush_delay_ms after the first byte of the batch entered it, and a
\* chunk containing a newline leaves the batch empty.
C14_FlushWithinDelay ==
    smart.config.flush_on_newline =>
        /\ smart.batch > 0 => smart.age <= smart.config.max_flush_delay_ms
        /\ smart.last = "newline" => smart.batch = 0

\* C13: while a session is live, every chunk the reader thread sent
\* successfully is either delivered to the consumer or still buffered, once
\* and in send order.
C13_NoChunkLost ==
    \A k \in SessionKinds :
        chan[k].phase \in {"spawned", "live"} =>
            chan[k].sent = chan[k].delivered \o chan[k].buf

\* the PTY sessions a stream owns: its legacy session and the UUID session
\* it is attached to
OwnedBy(s, n) ==
    \/ streams[s].session_id = n
    \/ streams[s].active_session_id # None /\ pty[n].key = streams[s].active_session_id

\* C12: once a stream has ended, by a Close frame or by EOF, every session
\* it owns is closed: the child is killed and the entry is removed.
C12_SessionsClosedAtEnd ==
    \A s \in Streams :
        (streams[s].pc = "done" \/ streams[s].close_seen) =>
            \A n \in PtyIds : OwnedBy(s, n) => ~pty[n].alive /\ ~Held(mgr, n)

\* C11: every Ping{ts} the handler has taken from the stream is eventually
\* answered: Pong{ts} is written to the send stream, also while a pump runs.
C11_PingAnswered ==
    \A ts \in Timestamps :
        (streams["s1"].pc = "send" /\ streams["s1"].out.frame = F("Pong", ts))
            ~> (streams["s1"].wire[2] = F("Pong", ts))

WholeFrames(k) ==
    LET l1 == Len(encode(c_src[1]))
        l2 == Len(encode(c_src[2]))
    IN IF k >= l1 + l2 THEN [msgs |-> c_src, len |-> l1 + l2]
       ELSE IF k >= l1 THEN [msgs |-> <<c_src[1]>>, len |-> l1]
       ELSE [msgs |-> <<>>, len |-> 0]

IsPrefix(a, b) == Len(a) <= Len(b) /\ a = SubSeq(b, 1, Len(a))

\* C6: on encode(m1) ++ encode(m2), cut after k bytes, decode_stream and the
\* server's try_decode_message loop return exactly the frames that are
\* complete within the k bytes, in order, and their cursor stops at the end
\* of the last complete frame; on the whole concatenation that is <<m1, m2>>
\* and len(encode(m1)) + len(encode(m2)).
C6_StreamRoundTrip ==
    c_src # <<>> =>
        LET w == WholeFrames(BLen(c_in))
        IN /\ IsPrefix(ds.messages, w.msgs) /\ ds.offset <= w.len
           /\ IsPrefix(td.messages, w.msgs) /\ td.offset <= w.len
           /\ ds.status # "err"
           /\ ds.status = "done" => (ds.messages = w.msgs /\ ds.offset = w.len)
           /\ td.status = "done" => (td.messages = w.msgs /\ td.offset = w.len)

\* both decoders finished on a whole concatenation of two different messages
C6_Witness ==
    /\ c_src # <<>>
    /\ c_src[1] # c_src[2]
    /\ BLen(c_in) = Len(encode(c_src[1])) + Len(encode(c_src[2]))
    /\ ds.status = "done" /\ Len(ds.messages) = 2
    /\ td.status = "done" /\ Len(td.messages) = 2

\* the buffer starts with a header declaring more than 16 MiB
Oversize == BLen(c_in) >= 4 /\ u32_be(c_in, 0) > MAX_MESSAGE_SIZE

\* C7: a frame whose header declares more than 16 MiB is rejected on every
\* decode path: decode returns MessageTooLarge, and neither decode_stream
\* nor try_decode_message returns a message decoded from it.
C7_OversizeRejected ==
    Oversize =>
        /\ dec.op = "decode" => dec.err = "MessageTooLarge"
        /\ ds.messages = <<>>
        /\ td.messages = <<>>


\* C3: the third record_auth_failure(ip) in a row (no reset in between)
\* returns Banned and check(ip) then returns Banned; a failure that is at
\* most the second since the last reset returns Ok and bans nobody; after
\* reset_auth_failures(ip) the counter reads 0.
C3_ThreeFailuresBan ==
    /\ (rl_result.op = "record" /\ fail_run[rl_result.ip] >= 3)
         => (rl_result.ret = "Banned" /\ check(rl_result.ip) = "Banned")
    /\ (rl_result.op = "record" /\ fail_run[rl_result.ip] < 3)
         => (rl_result.ret = "Ok" /\ ~rl_result.newly)
    /\ rl_result.op = "reset" => auth_failure_count(rl_result.ip) = 0

\* two failures, a reset, then one more failure: not banned
C3_Witness ==
    /\ rl_result.op = "record"
    /\ fail_run[rl_result.ip] = 1
    /\ rl_result.ip \notin banned_ips
    /\ \E ip \in Ips : ip # rl_result.ip /\ ip \in banned_ips /\ fail_run[ip] = 3

\* C4: the ban set only grows, and check(ip) of a banned ip is Banned after
\* every call (check, record_auth_failure, reset_auth_failures).
C4_BanPermanent ==
    [][/\ banned_ips \subseteq banned_ips'
       /\ \A ip \in banned_ips : (check(ip) = "Banned")'
       /\ (rl_result'.op = "check" /\ rl_result'.ip \in banned_ips)
            => rl_result'.ret = "Banned"]_vars

\* a banned ip whose failure counter has been reset
C4_Witness ==
    \E ip \in banned_ips : rl_result.op = "reset" /\ rl_result.ip = ip

\* C21: a cleanup_expired() call removes exactly the entries whose age has
\* reached the TTL, leaves every other entry with its creation time, and
\* returns the number of entries it removed.
C21_CleanupRemovesExpired ==
    [][tok_result'.op = "cleanup" =>
        /\ DOMAIN valid_tokens' =
              {t \in DOMAIN valid_tokens : now - valid_tokens[t] < DEFAULT_TOKEN_TTL}
        /\ \A t \in DOMAIN valid_tokens' : valid_tokens'[t] = valid_tokens[t]
        /\ tok_result'.ret =
              Cardinality(DOMAIN valid_tokens \ DOMAIN valid_tokens')]_vars

\* a sweep has removed one entry, whose age was exactly the TTL, and has kept
\* a younger one
C21_Witness ==
    /\ tok_result.op = "cleanup" /\ tok_result.ret = 1
    /\ now = DEFAULT_TOKEN_TTL
    /\ \E t \in DOMAIN valid_tokens : valid_tokens[t] = DEFAULT_TOKEN_TTL - 1

\* C22: on a fresh bucket the first 5 check(ip) calls of a non-banned ip
\* return Ok and a further call made before any refill returns RateExceeded,
\* whatever calls other ips make in between.
C22_FivePerBucket ==
    \A ip \in Ips :
        rl_result.op = "check" /\ rl_result.ip = ip /\ check_run[ip].fresh
            /\ rl_result.ret # "Banned" =>
                /\ check_run[ip].n <= RATE_LIMIT => rl_result.ret = "Ok"
                /\ check_run[ip].n > RATE_LIMIT => rl_result.ret = "RateExceeded"

\* the sixth check of one ip on its fresh bucket was refused while the other
\* ip has made three checks of its own
C22_Witness ==
    /\ rl_result.op = "check" /\ rl_result.ip = "ip1" /\ rl_result.ret = "RateExceeded"
    /\ check_run["ip1"] = [n |-> RATE_LIMIT + 1, fresh |-> TRUE]
    /\ check_run["ip2"] = [n |-> 3, fresh |-> TRUE]

\* C23: when the task of a stream has ended, on whatever path (end of the
\* loop or a failed write that is propagated), the cleanup of the session the
\* stream owns has run: the session is no longer in the manager.
C23_CleanupOnEveryExit ==
    \A s \in Streams :
        streams[s].pc \in {"done", "failed"} /\ streams[s].session_id # 0 =>
            ~Held(mgr, streams[s].session_id)

\* C24: a SwitchSession to an existing session, a switch back to an earlier
\* session included, leaves the session with a tagged pump of this stream
\* that is started or running when SessionSwitched is about to be sent.
C24_SwitchLeavesPump ==
    \A s \in Streams :
        streams[s].pc = "send" /\ streams[s].out.frame.t = "Switched" =>
            LET n == mgr.sessions_uuid[streams[s].out.frame.id]
            IN  n # 0 =>
                    /\ pty[n].pump \in {"spawned", "running"}
                    /\ pty[n].pstream = s

\* C25: a session that has been removed from the manager (close, cleanup or
\* reaper) has a dead child and no pump that is started or running.
C25_RemovedSessionIsQuiet ==
    \A n \in PtyIds :
        pty[n].key # None /\ ~Held(mgr, n) =>
            /\ ~pty[n].alive
            /\ pty[n].pump \notin {"spawned", "running"}

\* C26: the reaper removes only sessions whose child is dead, and every
\* stored session whose child is dead is eventually removed from its map.
C26_ReaperRemovesDead ==
    /\ [][\A s \in LkSessions :
            lk.sess[s].state = "stored" /\ lk'.sess[s].state = "removed"
                /\ lk'.sess[s].by = "reaper" => ~lk.sess[s].alive]_vars
    /\ \A s \in LkSessions :
        (lk.sess[s].state = "stored" /\ ~lk.sess[s].alive)
            ~> (lk.sess[s].state # "stored")

\* C30: a task whose write is blocked on the PTY of its session holds no
\* lock that an operation on a different session needs.
C30_BlockedWriteHoldsNoMapLock ==
    \A t, u \in Handlers :
        t # u /\ Blocked(t) => lk.lock[lk.kind[Target(u)]] # t

\* C27: on every stream the payloads written to a PTY are, in order, the
\* first payloads received after authentication: none is left out before
\* one that is written, none is written twice or out of order.
C27_InputIsPrefix ==
    \A s \in Streams :
        LET w == streams[s].written
        IN  /\ Len(w) <= streams[s].rcvd
            /\ \A i \in DOMAIN w : w[i] = i

\* C28: on the stream encode(m1) encode(m2) pump_quic_to_pty, once it has
\* returned, has recovered the messages up to the first Close in order and
\* dispatched each: Command and Input payloads written to the PTY, Resize
\* applied, Ping answered with the Pong of its timestamp (when there is a send
\* stream), and it returned Ok exactly on Close
C28_PumpRecoversAndDispatches ==
    qp # NoCall /\ ~qp.nested /\ qp.status # "run" =>
        LET ms == UpToClose(qp.src)
        IN /\ qp.got = ms
           /\ qp.pty = WrittenBy(ms)
           /\ qp.resized = ResizedBy(ms)
           /\ qp.has_send => qp.pongs = PongsFor(ms)
           /\ (qp.status = "ok") = (ms[Len(ms)].t = "Close")

\* C29: when the client has sent a frame that is over-length or undecodable
\* and the stream task waits for more bytes, the task has taken every byte
\* of the frames sent so far out of recv_buffer (the bad frame was skipped
\* and the frames after it were handled), and recv_buffer never holds more
\* than one maximal frame plus one read
C29_BadFrameDoesNotWedge ==
    acc # NoCall =>
        /\ acc.pc = "read" /\ acc.wire = <<>> /\ (\E i \in DOMAIN acc.sent : IsBad(acc.sent[i]))
              => acc.consumed >= Len(acc.sent[1]) + Len(acc.sent[2])
        /\ BLen(acc.recv_buffer) <= 4 + MAX_MESSAGE_SIZE + READ_SIZE

\* C31: with a history sender, a valid UTF-8 stream and a pump that has not
\* failed, whenever the bytes read so far end with a newline the lines pushed
\* to the history channel are exactly the newline-terminated lines of the
\* stream, in order, however the stream was cut into reads
C31_HistoryLinesExact ==
    tag # NoCall /\ tag.has_tx /\ tag.status # "err" /\ tag.stream # <<>>
        /\ ValidSoFar(tag.stream) /\ tag.stream[Len(tag.stream)].c = "nl"
        => tag.history = LinesOf(tag.stream)

\* C32: line_accumulator never holds more than the reset threshold plus one
\* read, for valid UTF-8 as well as for binary input
C32_AccumulatorBounded ==
    tag # NoCall => ByteLen(tag.line_accumulator) <= ACCUMULATOR_RESET + TAG_READ_SIZE

\* C33: no Output frame written by pump_pty_to_quic_smart carries more than
\* max_batch_size bytes, whatever the preset and the sizes of the reads
C33_FrameWithinBatchSize ==
    smart # NoCall =>
        \A i \in DOMAIN smart.frames : Size(smart.frames[i]) <= smart.config.max_batch_size

\* C37: the payloads of the Output frames written so far, followed by the
\* bytes still held in batch_buf, are the bytes read from the PTY in order;
\* after EOF batch_buf is empty, so the frames alone are the bytes read; no
\* frame is empty
C37_BatchingPreservesBytes ==
    smart # NoCall =>
        /\ FlattenFrames(Append(smart.frames, smart.buf)) = AllRead(smart.nread)
        /\ ~smart.running => smart.buf = <<>>
        /\ \A i \in DOMAIN smart.frames : smart.frames[i] # <<>>

\* C37 witness: EOF was served after a full read, a read of 4095 bytes and a
\* read of one byte, written in three frames
C37_Witness ==
    /\ smart # NoCall /\ ~smart.running /\ Len(smart.frames) = 3
    /\ smart.last = "eof" /\ smart.nread = SMART_READ_SIZE + 4095 + 1
    /\ FlattenFrames(smart.frames) = AllRead(smart.nread)

\* C34: a validate(t) call that finds t stored but expired returns false and
\* removes t from the store, so the token count drops by one
C34_ValidateRemovesExpired ==
    [][LET t == tok_result'.token
       IN tok_result'.op = "validate" /\ now' = now
              /\ t \in DOMAIN valid_tokens /\ ~NotExpired(now - valid_tokens[t])
          => /\ ~tok_result'.ret
             /\ t \notin DOMAIN valid_tokens'
             /\ Cardinality(DOMAIN valid_tokens') = Cardinality(DOMAIN valid_tokens) - 1]_vars

\* C35: the manager never drops the entry of a session whose child is alive
\* without killing it, in particular not when a UUID session is created
\* under an id that already exists
C35_NoLiveSessionDropped ==
    [][\A n \in PtyIds :
          Held(mgr, n) /\ pty[n].alive /\ ~Held(mgr', n) => ~pty'[n].alive]_vars

\* C36: while a stream is not authenticated the only frame the server sends
\* on it is its Hello reply, and no frame leaves state behind on the stream:
\* a Ping gets no Pong and a Resize is not kept as pending_resize
C36_SilentBeforeAuth ==
    \A s \in Streams :
        ~streams[s].authenticated =>
            /\ streams[s].pc = "send" => streams[s].out.frame.t = "Hello"
            /\ ~streams[s].pending_resize

\* C38: between the operations of the session manager the history-sender
\* registry has exactly the keys of the UUID session map
C38_HistorySendersMatchSessions ==
    \A u \in Uuids : (mgr.history_senders[u] # 0) <=> (mgr.sessions_uuid[u] # 0)

C40_NoLockDeadlock ==
    dl # NoCall =>
        /\ \A t \in DlTasks, k \in DlLocks :
               Requests(t, k) => \A h \in HeldBy(t) : LockRank(h) < LockRank(k)
        /\ \A k \in DlLocks : dl.owner[k] # "free" => dl.prog[dl.owner[k]] # <<>>
        /\ \A t \in DlTasks : dl.prog[t] # <<>> => Unblocks(t, Cardinality(DlTasks))

\* cleanup_session holds both legacy maps and the session's mutex while the
\* other handler and the cleanup task wait for sessions_legacy and the
\* history capture task holds sessions_uuid.
C40_Witness ==
    /\ dl # NoCall
    /\ dl.op["h1"] = "cleanup_session"
    /\ HeldBy("h1") = {"sessions_legacy", "outputs_legacy", "pty_legacy"}
    /\ dl.op["h2"] = "write_to_session" /\ Requests("h2", "sessions_legacy") /\ Waiting("h2")
    /\ dl.op["reaper"] = "cleanup_dead_sessions" /\ Requests("reaper", "sessions_legacy")
    /\ Len(dl.prog["reaper"]) = 10
    /\ HeldBy("history") = {"sessions_uuid"}

\* C5: validate(t) is true iff t is stored and younger than the TTL; a token
\* just added or generated validates; a token just removed, or any token
\* after clear(), does not.
C5_ValidateIff ==
    /\ tok_result.op = "validate" =>
          (tok_result.ret <=>
             (/\ tok_result.token \in DOMAIN valid_tokens
              /\ now - valid_tokens[tok_result.token] < DEFAULT_TOKEN_TTL))
    /\ tok_result.op \in {"add", "generate"} => validate(tok_result.token)
    /\ tok_result.op = "remove" => ~validate(tok_result.token)
    /\ tok_result.op = "clear" => \A t \in Tokens : ~validate(t)

\* a stored token whose TTL has elapsed was validated and refused
C5_Witness ==
    /\ tok_result.op = "validate"
    /\ tok_result.token \in DOMAIN valid_tokens
    /\ ~tok_result.ret
    /\ \E t \in DOMAIN valid_tokens : validate(t)

====
